---- MODULE Spec2Model ----
(***************************************************************************)
(* Slark: the asynchronous decode-and-playback pipeline of ui/view.rs.     *)
(*                                                                         *)
(* Spec: one View, its decode producer thread and the mpsc channel between *)
(* them. The UI thread runs View::new, the AnimFrame event handler and     *)
(* paint; paint is split at its only blocking points, the recv() of        *)
(* load_frame. Delays and intervals are nanoseconds, as in the source.     *)
(* SurfaceSpec: several such Views painted in turn by Surface::paint.      *)
(***************************************************************************)
EXTENDS Integers, Sequences, FiniteSets, TLC

\* ------------------------------------------------------------------ bounds

\* Longest animation (frames the producer delivers before it stops).
MaxFrames == 3
\* AnimFrame events handled in one behaviour.
MaxTicks == 2

\* ms -> ns, the factor of the WebP delay (view.rs:167).
NsPerMs == 1000000

\* Intervals druid may report with AnimFrame (ns); all below 2^63, so the
\* `as i64` cast of the handler keeps their value.
Intervals == {0, 120 * NsPerMs}

\* The extensions View::new dispatches on, and some it does not know.
Supported == {"gif", "webp", "jpg", "jpeg", "png"}
Extensions == Supported \cup {"GIF", "bmp", "none"}

RECURSIVE SeqsUpTo(_, _)
SeqsUpTo(S, n) ==
    IF n = 0 THEN {<<>>}
    ELSE LET shorter == SeqsUpTo(S, n - 1)
         IN shorter \cup {Append(s, x) : s \in {t \in shorter : Len(t) = n - 1}, x \in S}

\* ------------------------------------------------------------- the decoders

\* What a file declares for the timing of one frame. GIF: the delay in
\* hundredths of a second; WebP: the timestamp (ms) of the end of the frame,
\* which a file can make stay or go back; APNG: <<delay_num, delay_den>>;
\* JPEG: nothing.
Timings(e) ==
    IF e = "gif" THEN {0, 5, 10, 20}
    ELSE IF e = "webp" THEN {0, 33}
    ELSE IF e = "png" THEN {<<0, 0>>, <<1, 3>>}
    ELSE {0}

\* `frame.delay as i64 * 10_000_000`
gif_delay(t) == t * 10000000

\* `(frame.timestamp() - prev_timestamp) as i64 * 1_000_000`
webp_delay(timestamp, prev_timestamp) == (timestamp - prev_timestamp) * NsPerMs

\* 64-bit arithmetic. The products of the PNG delay do not fit the integers
\* of the model checker, so a u64 or i64 value >= 0 is the sequence of its
\* digits in base 1000, lowest first, without leading zero digits (0 is <<>>).
RECURSIVE Wide(_)
Wide(n) == IF n = 0 THEN <<>> ELSE <<n % 1000>> \o Wide(n \div 1000)

\* The value of a digit sequence that fits the integers of the model checker.
RECURSIVE narrow(_)
narrow(a) == IF a = <<>> THEN 0 ELSE Head(a) + 1000 * narrow(Tail(a))

RECURSIVE wide_norm(_)
wide_norm(a) ==
    IF a = <<>> THEN <<>>
    ELSE IF a[Len(a)] = 0 THEN wide_norm(SubSeq(a, 1, Len(a) - 1))
    ELSE a

\* a * m + c for a number m < 2^16 and a carry c.
RECURSIVE wide_mul_carry(_, _, _)
wide_mul_carry(a, m, c) ==
    IF a = <<>> THEN Wide(c)
    ELSE LET t == Head(a) * m + c
         IN <<t % 1000>> \o wide_mul_carry(Tail(a), m, t \div 1000)

wide_mul(a, m) == wide_norm(wide_mul_carry(a, m, 0))

wide_succ(a) == wide_norm(wide_mul_carry(a, 1, 1))

\* Long division of a by a number d, 0 < d < 2^16: quotient digits, remainder.
RECURSIVE wide_divmod(_, _)
wide_divmod(a, d) ==
    IF a = <<>> THEN [q |-> <<>>, r |-> 0]
    ELSE LET hi == wide_divmod(Tail(a), d)
             t == hi.r * 1000 + Head(a)
         IN [q |-> <<t \div d>> \o hi.q, r |-> t % d]

wide_div(a, d) == wide_norm(wide_divmod(a, d).q)

RECURSIVE wide_less(_, _)
wide_less(a, b) ==
    IF Len(a) # Len(b) THEN Len(a) < Len(b)
    ELSE IF a = <<>> THEN FALSE
    ELSE IF a[Len(a)] # b[Len(b)] THEN a[Len(a)] < b[Len(b)]
    ELSE wide_less(SubSeq(a, 1, Len(a) - 1), SubSeq(b, 1, Len(b) - 1))

wide_leq(a, b) == a = b \/ wide_less(a, b)

\* u64::MAX = 18_446_744_073_709_551_615 and i64::MAX = 9_223_372_036_854_775_807.
U64Max == <<615, 551, 709, 73, 744, 446, 18>>
I64Max == <<807, 775, 854, 36, 372, 223, 9>>

\* Faulty variant: the division is done before the multiplication.
png_delay_u64_divfirst(delay_num, delay_den) ==
    LET den == IF delay_den = 0 THEN 100 ELSE delay_den
        quotient == wide_mul(Wide(1000000000), delay_num \div den)
    IN [delay |-> quotient,
        overflow |-> FALSE,
        negative |-> ~wide_leq(quotient, I64Max)]

\* `(1_000_000_000 * (delay_num as u64) / den) as i64`, den 0 read as 100:
\* the delay, whether the u64 product overflows, and whether the cast to i64
\* makes the quotient negative.
png_delay_u64(delay_num, delay_den) ==
    LET den == IF delay_den = 0 THEN 100 ELSE delay_den
        product == wide_mul(Wide(1000000000), delay_num)
        quotient == wide_div(product, den)
    IN [delay |-> quotient,
        overflow |-> ~wide_leq(product, U64Max),
        negative |-> ~wide_leq(quotient, I64Max)]

\* The same delay as an integer, for the timings whose delay is below 2^31.
png_delay(delay_num, delay_den) == narrow(png_delay_u64(delay_num, delay_den).delay)

\* Faulty variant: prev_timestamp is never updated.
prev_timestamp_stale(d, k) == 0

\* `let mut prev_timestamp = 0;` .. `prev_timestamp = frame.timestamp();`
prev_timestamp(d, k) == IF k = 1 THEN 0 ELSE d[k - 1]

\* The delay of the k-th frame the decoder of extension e sends for a file
\* that declares the timings d.
frame_delay(e, d, k) ==
    IF e = "gif" THEN gif_delay(d[k])
    ELSE IF e = "webp" THEN webp_delay(d[k], prev_timestamp(d, k))
    ELSE IF e = "png" THEN png_delay(d[k][1], d[k][2])
    ELSE 0

\* The delays of all frames of such a file, in order.
decode(e, d) == [k \in 1..Len(d) |-> frame_delay(e, d, k)]

\* The delays of the frames a file of extension e can make its producer
\* deliver before the producer stops: JPEG sends at most one frame, of delay 0.
Animations(e) ==
    IF e \in {"jpg", "jpeg"} THEN {decode(e, d) : d \in SeqsUpTo(Timings(e), 1)}
    ELSE IF e \in Supported THEN {decode(e, d) : d \in SeqsUpTo(Timings(e), MaxFrames)}
    ELSE {<<>>}

\* The file behind the path: it opens and its header parses, it cannot be
\* opened, or it opens and its header cannot be parsed.
Files == {"ok", "unopenable", "bad_header"}

VARIABLES
    ext,          \* the extension of the path given to View::new ("none": no extension)
    file,         \* the condition of the file at that path
    anim,         \* the delays of the frames the decoder will yield, in order
    pstate,       \* producer thread: "unspawned", "running", "finished", "send_panic",
                  \* "decode_panic"
    chan,         \* the mpsc channel: FrameSources sent and not yet received
    sent,         \* history: every FrameSource ever sent, in order
    view,         \* the View: source, frames, current_frame, current_delay
    pc,           \* UI thread: "new", "idle", "paint_current", "paint_loop", "dropped", "crashed"
    start_frame,  \* paint's local start_frame
    crash,        \* why the UI thread panicked: "none", "unsupported_ext", "open_failed",
                  \* "header_failed", "index_oob"
    ticks,        \* AnimFrame events handled so far
    drawn,        \* history: frame indices drawn by the current (or last) paint, in order
    became,       \* history: frame indices that became current in that paint, in order
    recvs,        \* history: number of recv() calls made on the channel
    tick,         \* history: the last AnimFrame (the View before it, its interval) and
                  \* the paint that follows it: "none", "event", "painting", "done"
    views,        \* Surface: its Views in layer order, each with its channel and producer
    layer,        \* Surface::paint: the position in layers() of the View being painted, 0: none
    vpc,          \* that View's paint: "none", "paint_current", "paint_loop"
    vstart,       \* that View's paint: its local start_frame
    sticks,       \* Surface: AnimFrame events handled so far
    codec,        \* decoders: the last conversion made, its input and its output
    edit,         \* the Surface as an editor: its Project, view_trackers, active_view, drag
    pool,         \* pool::initialize: the socket, this process and the primary's thread
    stats,        \* the Stats widget: frame_times, frame_time_index, fps, initializing
    lay           \* layout of the View: the size its last layout returned, and whether
                  \* a layout is requested

viewvars == <<ext, file, anim, pstate, chan, sent, view, pc, start_frame, crash, ticks,
              drawn, became, recvs, tick>>
surfvars == <<views, layer, vpc, vstart, sticks>>
codecvars == <<codec>>
appvars == <<edit, pool, stats>>
layvars == <<lay>>
vars == <<viewvars, surfvars, codecvars, appvars, layvars>>

\* ------------------------------------------------------------- the producer

\* The image size the header of a file declares (GIF: the logical screen).
header_size == [width |-> 2, height |-> 2]

\* The width and height the producer sends with the k-th frame: GIF sends
\* its screen's, WebP and JPEG the frame's; PNG sends the frame-control
\* record's, here an APNG whose frames after the first are 1 x 1 sub-frames.
frame_size(e, k) ==
    IF e = "png" /\ k > 1 THEN [width |-> 1, height |-> 1] ELSE header_size

\* The k-th FrameSource of the animation; data stands for the pixel buffer.
FrameSource(k) ==
    [data |-> k, width |-> frame_size(ext, k).width, height |-> frame_size(ext, k).height,
     delay |-> anim[k]]

\* The Receiver exists: the View is alive and has not dropped it.
ReceiverAlive == pc \in {"idle", "paint_current", "paint_loop"} /\ view.source = "Some"
\* The View exists: View::new returned it and it has not been dropped.
ViewAlive == pc \in {"idle", "paint_current", "paint_loop"}

\* All Senders are gone: the producer thread has ended.
SenderGone == pstate \in {"finished", "send_panic", "decode_panic"}

\* sender.send(..).expect("Failed to send frame source")
send(receiverAlive) == IF receiverAlive THEN "ok" ELSE "send_panic"

\* Faulty variant: sync_channel(1), whose send waits while a frame is queued.
SendReady_bounded(q) == Len(q) < 1

\* `channel()`: the asynchronous channel has no capacity, send never waits.
SendReady(q) == TRUE

ProducerSend ==
    /\ pstate = "running"
    /\ Len(sent) < Len(anim)
    /\ SendReady(chan)
    /\ LET fs == FrameSource(Len(sent) + 1)
           r == send(ReceiverAlive)
       IN IF r = "ok"
          THEN /\ chan' = Append(chan, fs)
               /\ sent' = Append(sent, fs)
               /\ UNCHANGED pstate
          ELSE /\ pstate' = r
               /\ UNCHANGED <<chan, sent>>
    /\ UNCHANGED surfvars
    /\ UNCHANGED codecvars
    /\ UNCHANGED appvars
    /\ UNCHANGED layvars
    /\ UNCHANGED <<ext, file, anim, view, pc, start_frame, crash, ticks, drawn, became, recvs, tick>>

\* Faulty variant: the JPEG closure can return without having sent its frame.
decode_ends_any(e, f, k) == f = "ok"

\* After k frames the decoder can report that none is left, on which the
\* closure returns: the `None` of GIF's read_next_frame and of the WebP
\* iterator, the Err of PNG's next_frame (`break`), JPEG's one frame sent.
decode_ends(e, f, k) ==
    IF e \in {"jpg", "jpeg"} THEN k = 1 ELSE f = "ok"

\* After k frames the decoder can fail in an expect() or unwrap() of the
\* closure: GIF's read_next_frame at any frame, JPEG's decode, and the header
\* of WebP (Decoder::new) and PNG (read_info), which the closure parses.
decode_panics(e, f, k) ==
    IF e = "gif" THEN TRUE
    ELSE IF e \in {"jpg", "jpeg"} THEN k = 0
    ELSE k = 0 /\ f = "bad_header"

\* The decoder yields no further frame: the closure returns and drops the Sender.
ProducerFinish ==
    /\ pstate = "running"
    /\ Len(sent) = Len(anim)
    /\ decode_ends(ext, file, Len(sent))
    /\ pstate' = "finished"
    /\ UNCHANGED surfvars
    /\ UNCHANGED codecvars
    /\ UNCHANGED appvars
    /\ UNCHANGED layvars
    /\ UNCHANGED <<ext, file, anim, chan, sent, view, pc, start_frame, crash, ticks,
                   drawn, became, recvs, tick>>

\* The decoder fails: the closure panics, which ends the producer thread only
\* and drops the Sender as the thread unwinds.
ProducerFail ==
    /\ pstate = "running"
    /\ Len(sent) = Len(anim)
    /\ decode_panics(ext, file, Len(sent))
    /\ pstate' = "decode_panic"
    /\ UNCHANGED surfvars
    /\ UNCHANGED codecvars
    /\ UNCHANGED appvars
    /\ UNCHANGED layvars
    /\ UNCHANGED <<ext, file, anim, chan, sent, view, pc, start_frame, crash, ticks,
                   drawn, became, recvs, tick>>

\* No conversion made yet.
NoJob == [op |-> "none", in |-> <<>>, out |-> <<>>]

\* ---------------------------------------------------------- the application

\* Option<T>: None, and Some(x).
None == <<>>
Some(x) == <<x>>

\* Project::new
Project_new == [images |-> <<>>, layers |-> <<>>, dirty |-> FALSE]

\* ViewTracker::new: the tracker of a project image takes the image's id and
\* origin and is not selected.
view_tracker_new(image) == [id |-> image.id, origin |-> image.origin, selected |-> FALSE]

\* Surface::new
Surface_new(project) ==
    [project |-> project,
     view_trackers |-> [i \in 1..Len(project.images) |-> view_tracker_new(project.images[i])],
     active_view |-> None,
     drag |-> None]

\* Stats::FRAME_TIME_COUNT
FRAME_TIME_COUNT == 360

\* Stats::new; frame_times[i] of the source is frame_times[i + 1] here.
Stats_new ==
    [frame_times |-> [i \in 1..FRAME_TIME_COUNT |-> 0], frame_time_index |-> 0, fps |-> 0,
     initializing |-> TRUE, pattern |-> "zero", fed |-> <<>>]

\* The process before it calls pool::initialize: its filenames, what
\* connect(PIPE_NAME) will meet, the bytes it wrote to the socket, whether
\* it bound the listener, its listener thread, the channel of the event
\* sink, the connections made to its listener, the lines its thread read
\* and the filenames it submitted with COMMAND_ADD_IMAGE.
PoolStart == [pc |-> "start", filenames |-> <<>>, socket |-> "absent", written |-> <<>>,
              ret |-> "none", listener |-> FALSE, thread |-> "none", sink |-> "held",
              incoming |-> <<>>, connected |-> 0, accepted |-> 0, lines |-> <<>>,
              submitted |-> <<>>]

\* The View before its first layout: View.need_legit_layout, the size the
\* last layout returned (at scale factor 1) and whether it was the
\* placeholder, whether a layout is requested, and the layouts run unasked.
NoLayout == [need_legit_layout |-> FALSE, size |-> [some |-> FALSE, width |-> 0, height |-> 0],
             placeholder |-> FALSE, requested |-> FALSE, layouts |-> 0]

\* The state of the parts a specification does not run.
AppInit ==
    /\ edit = Surface_new(Project_new)
    /\ pool = PoolStart
    /\ stats = Stats_new
    /\ lay = NoLayout

\* ----------------------------------------------------------------- the View

\* Option<Size>: None, and Some(Size::new(width, height)).
NoSize == [some |-> FALSE, width |-> 0, height |-> 0]
SomeSize(width, height) == [some |-> TRUE, width |-> width, height |-> height]

NoView == [source |-> "None", image_size |-> NoSize, frames |-> <<>>, current_frame |-> 0,
           current_delay |-> 0]

\* View::new: the extension decides, anything else panics; then the file is
\* opened (File::open(..).expect, fs::read(..).unwrap) and, for GIF, its
\* header read (read_info().expect), all on the calling thread. The GIF
\* branch takes image_size from the header, the others leave it None.
view_new(e, f) ==
    IF e \notin Supported THEN [crash |-> "unsupported_ext", view |-> NoView]
    ELSE IF f = "unopenable" THEN [crash |-> "open_failed", view |-> NoView]
    ELSE IF f = "bad_header" /\ e = "gif" THEN [crash |-> "header_failed", view |-> NoView]
    ELSE [crash |-> "none",
          view |-> [source |-> "Some",
                    image_size |-> IF e = "gif"
                                   THEN SomeSize(header_size.width, header_size.height)
                                   ELSE NoSize,
                    frames |-> <<>>, current_frame |-> 0, current_delay |-> 0]]

\* Faulty variant: try_recv(), which does not wait for the producer.
RecvReady_try(v, q, senderGone) == TRUE

\* receiver.recv() blocks until a message is queued or every Sender is gone.
RecvReady(v, q, senderGone) == v.source = "None" \/ q # <<>> \/ senderGone

\* Faulty variant: the new frame is put in front of the cache.
push_front(frames, f) == <<f>> \o frames

\* self.frames.push(Frame {..})
push(frames, f) == Append(frames, f)

\* Faulty variant: a closed channel also empties the cache.
disconnect_clear(v) == [v EXCEPT !.source = "None", !.frames = <<>>, !.current_frame = 0]

\* recv() returned Err: `self.source = None`
disconnect(v) == [v EXCEPT !.source = "None"]

\* Faulty variant: every frame loaded sets image_size.
establish_size_always(size, source) == SomeSize(source.width, source.height)

\* `if self.image_size.is_none() { self.image_size = Some(Size::new(..)) }`
establish_size(size, source) ==
    IF ~size.some THEN SomeSize(source.width, source.height) ELSE size

\* load_frame on queue q, called once recv() can return.
load_frame(v, q) ==
    IF v.source = "Some"
    THEN IF q # <<>>
         THEN [v |-> [v EXCEPT !.frames = push(@, [img |-> Head(q).data,
                                                   width |-> Head(q).width,
                                                   height |-> Head(q).height,
                                                   delay |-> Head(q).delay]),
                               !.image_size = establish_size(@, Head(q))],
               q |-> Tail(q), ret |-> TRUE, recv |-> 1]
         ELSE [v |-> disconnect(v), q |-> q, ret |-> FALSE, recv |-> 1]
    ELSE [v |-> v, q |-> q, ret |-> FALSE, recv |-> 0]

\* frames[i]: an index past the end panics.
InBounds(v, i) == i < Len(v.frames)

\* Faulty variant: the channel is read only while the cache is empty
\* (as Image::current_frame of ui/image.rs does).
current_frame_lazy(v, q) ==
    LET l == IF v.frames = <<>> THEN load_frame(v, q)
             ELSE [v |-> v, q |-> q, ret |-> FALSE, recv |-> 0]
    IN IF l.v.frames = <<>>
       THEN [v |-> l.v, q |-> l.q, recv |-> l.recv, img |-> -1, panic |-> FALSE]
       ELSE [v |-> l.v, q |-> l.q, recv |-> l.recv, img |-> l.v.current_frame,
             panic |-> ~InBounds(l.v, l.v.current_frame)]

\* current_frame(): the index drawn, -1 for None.
current_frame(v, q) ==
    LET l == load_frame(v, q)
    IN IF l.v.frames = <<>>
       THEN [v |-> l.v, q |-> l.q, recv |-> l.recv, img |-> -1, panic |-> FALSE]
       ELSE [v |-> l.v, q |-> l.q, recv |-> l.recv, img |-> l.v.current_frame,
             panic |-> ~InBounds(l.v, l.v.current_frame)]

\* Faulty variant: the index goes back to 0 one frame early.
advance_early(cf, n) == IF cf + 2 >= n THEN 0 ELSE cf + 1

\* Faulty variant: the index is not wrapped.
advance_nowrap(cf, n) == cf + 1

\* `self.current_frame += 1`, wrapped to 0 past the last cached frame.
advance(cf, n) == IF cf + 1 >= n THEN 0 ELSE cf + 1

\* Faulty variant: the delay counter is set to the frame's delay, dropping the deficit.
add_delay_reset(d, frameDelay) == frameDelay

\* `self.current_delay += self.frames[self.current_frame].delay`
add_delay(d, frameDelay) == d + frameDelay

\* Faulty variant: the test for an empty cache is missing.
no_frames_unchecked(v) == FALSE

\* `self.frames.len() == 0`
no_frames(v) == Len(v.frames) = 0

\* next_frame(): the index drawn, -1 for None.
next_frame(v, q) ==
    LET l == load_frame(v, q)
    IN IF no_frames(l.v)
       THEN [v |-> l.v, q |-> l.q, recv |-> l.recv, img |-> -1, panic |-> FALSE]
       ELSE LET cf == advance(l.v.current_frame, Len(l.v.frames))
            IN IF InBounds(l.v, cf)
               THEN [v |-> [l.v EXCEPT !.current_frame = cf,
                                       !.current_delay = add_delay(@, l.v.frames[cf + 1].delay)],
                     q |-> l.q, recv |-> l.recv, img |-> cf, panic |-> FALSE]
               ELSE [v |-> [l.v EXCEPT !.current_frame = cf],
                     q |-> l.q, recv |-> l.recv, img |-> -1, panic |-> TRUE]

\* Faulty variant: a negative counter is clamped to zero.
anim_frame_clamped(v, interval) ==
    [v EXCEPT !.current_delay = IF @ - interval < 0 THEN 0 ELSE @ - interval]

\* Faulty variant: every AnimFrame counts as one millisecond at least.
anim_frame_min(v, interval) ==
    [v EXCEPT !.current_delay = @ - (IF interval < NsPerMs THEN NsPerMs ELSE interval)]

\* Event::AnimFrame(interval)
anim_frame(v, interval) == [v EXCEPT !.current_delay = @ - interval]

\* Faulty variant: the layout is requested and the flag kept.
anim_frame_layout_keep(l, v) ==
    IF l.need_legit_layout /\ v.image_size.some THEN [l EXCEPT !.requested = TRUE] ELSE l

\* View::event, AnimFrame: `if self.need_legit_layout && self.image_size.is_some()`
anim_frame_layout(l, v) ==
    IF l.need_legit_layout /\ v.image_size.some
    THEN [l EXCEPT !.requested = TRUE, !.need_legit_layout = FALSE]
    ELSE l

\* Layout passes druid runs without a request of the View (the first one, a
\* resized window).
MaxLayouts == 2

\* View::layout
layout(l, v) ==
    IF v.image_size.some
    THEN [l EXCEPT !.size = v.image_size, !.placeholder = FALSE, !.requested = FALSE]
    ELSE [l EXCEPT !.need_legit_layout = TRUE, !.size = SomeSize(100, 100),
                   !.placeholder = TRUE, !.requested = FALSE]

\* Faulty variant: the guard against 0-delay animations is missing.
loop_break_never(v, start) == FALSE

\* paint's test `self.current_frame == start_frame` that ends the loop.
loop_break(v, start) == v.current_frame = start

\* Whether the loop of paint runs another iteration after one that left v.
loop_again(v, start) == ~loop_break(v, start) /\ v.current_delay <= 0

\* Faulty variant: only the last frame is kept on screen by the record of draws.
draw_last(d, img) == IF img >= 0 THEN <<img>> ELSE d

\* `if let Some(img) = .. { ctx.render_ctx.draw_image_area(img, ..) }`: the
\* record d of the frames drawn gets the frame's index.
draw(d, img) == IF img >= 0 THEN Append(d, img) ELSE d

\* The loop of paint, run to its end on the FrameSources q that recv() will
\* return, in order, before it reports the channel disconnected; d is the
\* record of the frames drawn.
RECURSIVE paint_iterate(_, _, _, _)
paint_iterate(v, q, start, d) ==
    LET r == next_frame(v, q)
    IN IF loop_again(r.v, start)
       THEN paint_iterate(r.v, r.q, start, draw(d, r.img))
       ELSE [v |-> r.v, q |-> r.q, d |-> draw(d, r.img)]

\* The whole loop of one paint.
paint_loop(v, q, start) == paint_iterate(v, q, start, <<>>)

\* Faulty variant: every paint advances.
paint_branch_advance(v) == "paint_loop"

\* The branch of View::paint on entry: `if self.current_delay > 0`.
paint_branch(v) == IF v.current_delay > 0 THEN "paint_current" ELSE "paint_loop"

\* paint as a function of the View and of what the channel will deliver.
paint(v, q) ==
    IF paint_branch(v) = "paint_current"
    THEN LET r == current_frame(v, q) IN [v |-> r.v, q |-> r.q, d |-> draw(<<>>, r.img)]
    ELSE paint_loop(v, q, v.current_frame)

\* ------------------------------------------------------- the UI thread

New ==
    /\ pc = "new"
    /\ LET r == view_new(ext, file)
       IN /\ view' = r.view
          /\ pc' = IF r.crash # "none" THEN "crashed" ELSE "idle"
          /\ crash' = r.crash
          /\ pstate' = IF r.crash # "none" THEN pstate ELSE "running"
    /\ UNCHANGED surfvars
    /\ UNCHANGED codecvars
    /\ UNCHANGED appvars
    /\ UNCHANGED layvars
    /\ UNCHANGED <<ext, file, anim, chan, sent, start_frame, ticks, drawn, became, recvs, tick>>

AnimFrame ==
    /\ pc = "idle"
    /\ ticks < MaxTicks
    /\ \E interval \in Intervals :
          /\ view' = anim_frame(view, interval)
          /\ tick' = [pre |-> view.current_delay, elapsed |-> interval, frame |-> view.current_frame,
                      cached |-> Len(view.frames), state |-> "event"]
    /\ ticks' = ticks + 1
    /\ UNCHANGED surfvars
    /\ UNCHANGED codecvars
    /\ UNCHANGED appvars
    /\ lay' = anim_frame_layout(lay, view)
    /\ UNCHANGED <<ext, file, anim, pstate, chan, sent, pc, start_frame, crash, drawn, became, recvs>>

\* paint up to its first recv(): the branch on current_delay, start_frame.
PaintBegin ==
    /\ pc = "idle"
    /\ pc' = paint_branch(view)
    /\ start_frame' = view.current_frame
    /\ drawn' = <<>>
    /\ became' = <<>>
    /\ tick' = [tick EXCEPT !.state = IF @ = "event" THEN "painting" ELSE "none"]
    /\ UNCHANGED surfvars
    /\ UNCHANGED codecvars
    /\ UNCHANGED appvars
    /\ UNCHANGED layvars
    /\ UNCHANGED <<ext, file, anim, pstate, chan, sent, view, crash, ticks, recvs>>

TickDone(t) == [t EXCEPT !.state = IF @ = "painting" THEN "done" ELSE "none"]

\* `current_delay > 0`: paint the current frame.
PaintCurrent ==
    /\ pc = "paint_current"
    /\ RecvReady(view, chan, SenderGone)
    /\ LET r == current_frame(view, chan)
       IN /\ view' = r.v
          /\ chan' = r.q
          /\ recvs' = recvs + r.recv
          /\ drawn' = IF r.panic THEN drawn ELSE draw(drawn, r.img)
          /\ pc' = IF r.panic THEN "crashed" ELSE "idle"
          /\ crash' = IF r.panic THEN "index_oob" ELSE crash
    /\ tick' = TickDone(tick)
    /\ UNCHANGED surfvars
    /\ UNCHANGED codecvars
    /\ UNCHANGED appvars
    /\ UNCHANGED layvars
    /\ UNCHANGED <<ext, file, anim, pstate, sent, start_frame, ticks, became>>

\* One iteration of `while self.current_delay <= 0`.
PaintNext ==
    /\ pc = "paint_loop"
    /\ RecvReady(view, chan, SenderGone)
    /\ LET r == next_frame(view, chan)
           again == loop_again(r.v, start_frame)
       IN /\ view' = r.v
          /\ chan' = r.q
          /\ recvs' = recvs + r.recv
          /\ drawn' = draw(drawn, r.img)
          /\ became' = IF r.img >= 0 THEN Append(became, r.img) ELSE became
          /\ pc' = IF r.panic THEN "crashed" ELSE IF again THEN "paint_loop" ELSE "idle"
          /\ crash' = IF r.panic THEN "index_oob" ELSE crash
          /\ tick' = IF r.panic \/ again THEN tick ELSE TickDone(tick)
    /\ UNCHANGED surfvars
    /\ UNCHANGED codecvars
    /\ UNCHANGED appvars
    /\ UNCHANGED layvars
    /\ UNCHANGED <<ext, file, anim, pstate, sent, start_frame, ticks>>

NoTick == [pre |-> 0, elapsed |-> 0, frame |-> 0, cached |-> 0, state |-> "none"]

\* The View is dropped (Surface::remove, set_project): its fields are gone,
\* and with them the Receiver and the FrameSources still queued in the channel.
DropView ==
    /\ pc = "idle"
    /\ pc' = "dropped"
    /\ view' = NoView
    /\ chan' = <<>>
    /\ start_frame' = 0
    /\ drawn' = <<>>
    /\ became' = <<>>
    /\ tick' = NoTick
    /\ UNCHANGED surfvars
    /\ UNCHANGED codecvars
    /\ UNCHANGED appvars
    /\ UNCHANGED layvars
    /\ UNCHANGED <<ext, file, anim, pstate, sent, crash, ticks, recvs>>

\* ------------------------------------------------------------ specification

Init ==
    /\ AppInit
    /\ ext \in Extensions
    /\ file \in Files
    /\ anim \in (IF file = "ok" THEN Animations(ext) ELSE {<<>>})
    /\ pstate = "unspawned"
    /\ chan = <<>>
    /\ sent = <<>>
    /\ view = NoView
    /\ pc = "new"
    /\ start_frame = 0
    /\ crash = "none"
    /\ ticks = 0
    /\ drawn = <<>>
    /\ became = <<>>
    /\ recvs = 0
    /\ tick = NoTick
    /\ views = <<>>
    /\ layer = 0
    /\ vpc = "none"
    /\ vstart = 0
    /\ sticks = 0
    /\ codec = NoJob

Next ==
    \/ New
    \/ AnimFrame
    \/ PaintBegin
    \/ PaintCurrent
    \/ PaintNext
    \/ DropView
    \/ ProducerSend
    \/ ProducerFinish
    \/ ProducerFail

Spec == Init /\ [][Next]_vars

\* druid lays the View out: when a layout is requested, and unasked.
Layout ==
    /\ pc = "idle"
    /\ lay.requested \/ lay.layouts < MaxLayouts
    /\ lay' = [layout(lay, view) EXCEPT !.layouts = IF lay.requested THEN @ ELSE @ + 1]
    /\ UNCHANGED <<viewvars, surfvars, codecvars, appvars>>

\* One image that opens, of at most two frames.
LayoutInit ==
    /\ Init
    /\ ext \in {"gif", "webp", "jpg"}
    /\ file = "ok"
    /\ Len(anim) <= 2

LayoutNext ==
    \/ Next
    \/ Layout

\* The View with its layout passes.
LayoutSpec == LayoutInit /\ [][LayoutNext]_vars

\* AnimFrame events keep coming (each handler requests the next), a layout
\* requested is run between two paints, paints end and the producer runs.
LayoutFairSpec ==
    /\ LayoutSpec
    /\ SF_vars(AnimFrame)
    /\ SF_vars(Layout)
    /\ WF_vars(PaintBegin)
    /\ WF_vars(PaintCurrent)
    /\ WF_vars(PaintNext)
    /\ WF_vars(ProducerSend \/ ProducerFinish \/ ProducerFail)

\* The paint in progress keeps running and the producer thread keeps being
\* scheduled: it eventually delivers its next frame or ends.
FairSpec ==
    /\ Spec
    /\ WF_vars(PaintNext)
    /\ WF_vars(ProducerSend \/ ProducerFinish \/ ProducerFail)

\* Paint keeps being called on the View as long as it lives, every paint
\* begun runs on, and the producer thread keeps being scheduled.
PaintingSpec ==
    /\ Spec
    /\ WF_vars(PaintBegin)
    /\ WF_vars(PaintCurrent)
    /\ WF_vars(PaintNext)
    /\ WF_vars(ProducerSend \/ ProducerFinish \/ ProducerFail)

\* ------------------------------------------------- the Image and Gif widgets
\* ui/image.rs and ui/gif.rs: the widgets the View grew out of. They have the
\* View's fields but image_size, the same producers and channel, the same
\* AnimFrame handler and the same paint, over a current_frame and a
\* next_frame of their own that return a bitmap, not an Option. The two
\* files agree line for line in these functions; Image is the one modelled,
\* in the variables of the View.

\* The extensions Image::new takes.
ImageSupported == {"gif", "webp"}

\* Image::new
image_new(e, f) ==
    IF e \notin ImageSupported THEN [crash |-> "unsupported_ext", view |-> NoView]
    ELSE IF f = "unopenable" THEN [crash |-> "open_failed", view |-> NoView]
    ELSE IF f = "bad_header" /\ e = "gif" THEN [crash |-> "header_failed", view |-> NoView]
    ELSE [crash |-> "none", view |-> [NoView EXCEPT !.source = "Some"]]

\* Image::next_frame: one recv() while source is Some, then the index moves
\* on, is reset when it equals frames.len(), and frames[current_frame] is read.
image_next_frame(v, q) ==
    LET l == IF v.source = "Some"
             THEN IF q # <<>>
                  THEN [v |-> [v EXCEPT !.frames = push(@, [img |-> Head(q).data,
                                                            width |-> Head(q).width,
                                                            height |-> Head(q).height,
                                                            delay |-> Head(q).delay])],
                        q |-> Tail(q), recv |-> 1]
                  ELSE [v |-> disconnect(v), q |-> q, recv |-> 1]
             ELSE [v |-> v, q |-> q, recv |-> 0]
        cf == IF l.v.current_frame + 1 = Len(l.v.frames) THEN 0 ELSE l.v.current_frame + 1
    IN IF InBounds(l.v, cf)
       THEN [v |-> [l.v EXCEPT !.current_frame = cf,
                               !.current_delay = add_delay(@, l.v.frames[cf + 1].delay)],
             q |-> l.q, recv |-> l.recv, img |-> cf, panic |-> FALSE]
       ELSE [v |-> [l.v EXCEPT !.current_frame = cf],
             q |-> l.q, recv |-> l.recv, img |-> -1, panic |-> TRUE]

\* Image::current_frame: next_frame() while the cache is empty, else
\* frames[current_frame].
image_current_frame(v, q) ==
    IF v.frames = <<>> THEN image_next_frame(v, q)
    ELSE [v |-> v, q |-> q, recv |-> 0, img |-> v.current_frame,
          panic |-> ~InBounds(v, v.current_frame)]

ImageNew ==
    /\ pc = "new"
    /\ LET r == image_new(ext, file)
       IN /\ view' = r.view
          /\ pc' = IF r.crash # "none" THEN "crashed" ELSE "idle"
          /\ crash' = r.crash
          /\ pstate' = IF r.crash # "none" THEN pstate ELSE "running"
    /\ UNCHANGED surfvars
    /\ UNCHANGED codecvars
    /\ UNCHANGED appvars
    /\ UNCHANGED layvars
    /\ UNCHANGED <<ext, file, anim, chan, sent, start_frame, ticks, drawn, became, recvs, tick>>

\* Image::paint, `current_delay > 0`: paint the current frame.
ImagePaintCurrent ==
    /\ pc = "paint_current"
    /\ view.frames # <<>> \/ RecvReady(view, chan, SenderGone)
    /\ LET r == image_current_frame(view, chan)
       IN /\ view' = r.v
          /\ chan' = r.q
          /\ recvs' = recvs + r.recv
          /\ drawn' = draw(drawn, r.img)
          /\ pc' = IF r.panic THEN "crashed" ELSE "idle"
          /\ crash' = IF r.panic THEN "index_oob" ELSE crash
    /\ tick' = TickDone(tick)
    /\ UNCHANGED surfvars
    /\ UNCHANGED codecvars
    /\ UNCHANGED appvars
    /\ UNCHANGED layvars
    /\ UNCHANGED <<ext, file, anim, pstate, sent, start_frame, ticks, became>>

\* Image::paint: one iteration of `while self.current_delay <= 0`.
ImagePaintNext ==
    /\ pc = "paint_loop"
    /\ RecvReady(view, chan, SenderGone)
    /\ LET r == image_next_frame(view, chan)
           again == loop_again(r.v, start_frame)
       IN /\ view' = r.v
          /\ chan' = r.q
          /\ recvs' = recvs + r.recv
          /\ drawn' = draw(drawn, r.img)
          /\ became' = IF r.img >= 0 THEN Append(became, r.img) ELSE became
          /\ pc' = IF r.panic THEN "crashed" ELSE IF again THEN "paint_loop" ELSE "idle"
          /\ crash' = IF r.panic THEN "index_oob" ELSE crash
          /\ tick' = IF r.panic \/ again THEN tick ELSE TickDone(tick)
    /\ UNCHANGED surfvars
    /\ UNCHANGED codecvars
    /\ UNCHANGED appvars
    /\ UNCHANGED layvars
    /\ UNCHANGED <<ext, file, anim, pstate, sent, start_frame, ticks>>

\* An Image is made of a GIF or WebP file that opens; its decoder yields the
\* frames of anim, none at all for a file without frames.
ImageInit ==
    /\ AppInit
    /\ ext \in ImageSupported
    /\ file = "ok"
    /\ anim \in Animations(ext)
    /\ pstate = "unspawned" /\ chan = <<>> /\ sent = <<>> /\ view = NoView /\ pc = "new"
    /\ start_frame = 0 /\ crash = "none" /\ ticks = 0 /\ drawn = <<>> /\ became = <<>>
    /\ recvs = 0 /\ tick = NoTick
    /\ views = <<>> /\ layer = 0 /\ vpc = "none" /\ vstart = 0 /\ sticks = 0
    /\ codec = NoJob

ImageNext ==
    \/ ImageNew
    \/ AnimFrame
    \/ PaintBegin
    \/ ImagePaintCurrent
    \/ ImagePaintNext
    \/ ProducerSend
    \/ ProducerFinish
    \/ ProducerFail

ImageSpec == ImageInit /\ [][ImageNext]_vars

\* ------------------------------------------------ the Project and the editor
\* project.rs and the editing side of ui/surface.rs. Ids and Vec indices count
\* from 0 as in the source; the element of index i of a Vec v is v[i + 1].

\* Images a Project holds at most.
MaxImages == 3
\* Origins of an image: Point::ZERO and one other point.
Origins == {0, 1}
\* Arguments of the calls that take an id: the ids in use and one beyond.
Ids == 0..MaxImages
\* Layer shifts asked for.
Deltas == {-2, -1, 0, 1, 2}

\* Project::add
project_add(p) ==
    LET next_id == Len(p.images)
    IN [images |-> Append(p.images, [id |-> next_id, origin |-> 0]),
        layers |-> Append(p.layers, next_id),
        dirty |-> TRUE]

\* `self.images.iter_mut().find(|image| image.id == image_id)`: the index
\* (from 1) of the first image of that id, 0 when there is none.
find_image(p, image_id) ==
    LET found == {i \in 1..Len(p.images) : p.images[i].id = image_id}
    IN IF found = {} THEN 0 ELSE CHOOSE i \in found : \A j \in found : i <= j

\* Faulty variant: every call marks the project dirty.
project_set_origin_always(p, image_id, origin) ==
    LET i == find_image(p, image_id)
    IN IF i # 0 THEN [p EXCEPT !.images[i].origin = origin, !.dirty = TRUE]
       ELSE [p EXCEPT !.dirty = TRUE]

\* Project::set_origin
project_set_origin(p, image_id, origin) ==
    LET i == find_image(p, image_id)
    IN IF i # 0 /\ p.images[i].origin # origin
       THEN [p EXCEPT !.images[i].origin = origin, !.dirty = TRUE]
       ELSE p

\* `self.layers.iter().position(|&id| id == image_id)`: the layer (from 0)
\* of the image, -1 for None.
position(layers, image_id) ==
    LET found == {i \in 1..Len(layers) : layers[i] = image_id}
    IN IF found = {} THEN -1 ELSE (CHOOSE i \in found : \A j \in found : i <= j) - 1

\* The clamping of shift_layer.
new_layer(current_layer, delta, len) ==
    IF current_layer + delta < 0 THEN 0
    ELSE IF current_layer + delta >= len THEN len - 1
    ELSE current_layer + delta

\* Faulty variant: the image is written to its new layer and the image that
\* was there is lost.
project_shift_layer_overwrite(p, image_id, delta) ==
    LET current_layer == position(p.layers, image_id)
        new == new_layer(current_layer, delta, Len(p.layers))
    IN IF current_layer >= 0 /\ new # current_layer
       THEN [p EXCEPT !.layers[new + 1] = image_id, !.dirty = TRUE]
       ELSE p

\* Project::shift_layer
project_shift_layer(p, image_id, delta) ==
    LET current_layer == position(p.layers, image_id)
        new == new_layer(current_layer, delta, Len(p.layers))
    IN IF current_layer >= 0 /\ new # current_layer
       THEN [p EXCEPT !.layers = [@ EXCEPT ![current_layer + 1] = p.layers[new + 1],
                                           ![new + 1] = image_id],
                      !.dirty = TRUE]
       ELSE p

\* Project::save, `Ok(json)`: the file is written and dirty cleared; when
\* serde_json::to_string fails nothing is done.
project_save(p, ok) == IF ok THEN [p EXCEPT !.dirty = FALSE] ELSE p

\* Project::remove, "same as" Surface::remove: the last image takes the slot
\* and the id of the image removed, whose layer is deleted.
project_remove(p, image_id) ==
    LET last_id == Len(p.images) - 1
        kept == SelectSeq(p.layers, LAMBDA id : id # image_id)
    IN IF image_id > last_id THEN p
       ELSE [images |-> [i \in 1..last_id |->
                            IF i = image_id + 1
                            THEN [p.images[last_id + 1] EXCEPT !.id = image_id]
                            ELSE p.images[i]],
             layers |-> [i \in 1..Len(kept) |-> IF kept[i] = last_id THEN image_id ELSE kept[i]],
             dirty |-> TRUE]

\* Surface::add
surface_add(s) ==
    LET project == project_add(s.project)
    IN [s EXCEPT !.project = project,
                 !.view_trackers = Append(@, view_tracker_new(project.images[Len(project.images)]))]

\* Surface::set_project
surface_set_project(s, project) == Surface_new(project)

\* Faulty variant: active_view and drag are not renumbered when the view
\* they refer to is moved into the slot of the view removed.
surface_remove_stale(s, view_id) ==
    LET len == Len(s.view_trackers)
        last_id == len - 1
    IN IF len = 0 \/ len <= view_id THEN s
       ELSE IF len = 1
       THEN [s EXCEPT !.view_trackers = <<>>, !.project = project_remove(@, view_id),
                      !.drag = None, !.active_view = None]
       ELSE [s EXCEPT !.view_trackers =
                          [i \in 1..last_id |->
                              IF i = view_id + 1
                              THEN [s.view_trackers[last_id + 1] EXCEPT !.id = view_id]
                              ELSE s.view_trackers[i]],
                      !.project = project_remove(@, view_id),
                      !.drag = IF @ = Some(view_id) THEN None ELSE @,
                      !.active_view = IF @ = Some(view_id) THEN None ELSE @]

\* Surface::remove
surface_remove(s, view_id) ==
    LET len == Len(s.view_trackers)
        last_id == len - 1
    IN IF len = 0 \/ len <= view_id THEN s
       ELSE IF len = 1
       THEN [s EXCEPT !.view_trackers = <<>>, !.project = project_remove(@, view_id),
                      !.drag = None, !.active_view = None]
       ELSE [s EXCEPT !.view_trackers =
                          [i \in 1..last_id |->
                              IF i = view_id + 1
                              THEN [s.view_trackers[last_id + 1] EXCEPT !.id = view_id]
                              ELSE s.view_trackers[i]],
                      !.project = project_remove(@, view_id),
                      !.drag = IF @ = Some(view_id) THEN None
                               ELSE IF @ = Some(last_id) THEN Some(view_id)
                               ELSE @,
                      !.active_view = IF @ = Some(view_id) THEN None
                                      ELSE IF @ = Some(last_id) THEN Some(view_id)
                                      ELSE @]

\* `for &id in self.project.layers().iter().rev()`, from layer k down: the
\* first view whose layout rect contains the mouse position (the views of
\* hit); indexing view_trackers by an id past its end panics.
RECURSIVE topmost_hit(_, _, _)
topmost_hit(s, k, hit) ==
    IF k = 0 THEN [panic |-> FALSE, index |-> -1]
    ELSE LET id == s.project.layers[k]
         IN IF id >= Len(s.view_trackers) THEN [panic |-> TRUE, index |-> -1]
            ELSE IF id \in hit THEN [panic |-> FALSE, index |-> id]
            ELSE topmost_hit(s, k - 1, hit)

\* Faulty variant: the view that was active stays selected.
clear_active_keep(s) == [s EXCEPT !.active_view = None]

\* "Always clear the currently active view"
clear_active(s) ==
    IF s.active_view # None
    THEN [s EXCEPT !.view_trackers[s.active_view[1] + 1].selected = FALSE, !.active_view = None]
    ELSE s

\* Surface::event, MouseDown with the left button.
mouse_down(s, hit) ==
    IF s.active_view # None /\ s.active_view[1] >= Len(s.view_trackers)
    THEN [panic |-> TRUE, s |-> s]
    ELSE LET cleared == clear_active(s)
             top == topmost_hit(cleared, Len(cleared.project.layers), hit)
         IN IF top.panic THEN [panic |-> TRUE, s |-> cleared]
            ELSE IF top.index >= 0
            THEN [panic |-> FALSE,
                  s |-> [cleared EXCEPT
                            !.active_view = Some(cleared.view_trackers[top.index + 1].id),
                            !.view_trackers[top.index + 1].selected = TRUE,
                            !.drag = Some(cleared.view_trackers[top.index + 1].id)]]
            ELSE [panic |-> FALSE, s |-> cleared]

\* `self.view_trackers.iter_mut().find(|vt| vt.id == drag.view_id)`
find_tracker(s, view_id) ==
    LET found == {i \in 1..Len(s.view_trackers) : s.view_trackers[i].id = view_id}
    IN IF found = {} THEN 0 ELSE CHOOSE i \in found : \A j \in found : i <= j

\* Surface::event, MouseMove: the view dragged gets the origin that
\* adjust_origin returns.
mouse_move(s, origin) ==
    IF s.drag # None /\ find_tracker(s, s.drag[1]) # 0
    THEN LET i == find_tracker(s, s.drag[1])
         IN [s EXCEPT !.view_trackers[i].origin = origin,
                      !.project = project_set_origin(@, s.view_trackers[i].id, origin)]
    ELSE s

\* Surface::event, MouseUp with the left button.
mouse_up(s, origin) ==
    IF s.drag = None THEN [panic |-> FALSE, s |-> s]
    ELSE IF s.drag[1] >= Len(s.view_trackers) THEN [panic |-> TRUE, s |-> s]
    ELSE LET i == s.drag[1] + 1
         IN [panic |-> FALSE,
             s |-> [s EXCEPT !.view_trackers[i].origin = origin,
                             !.project = project_set_origin(@, s.view_trackers[i].id, origin),
                             !.drag = None]]

\* Surface::event, KeyUp Delete
key_delete(s) == IF s.active_view # None THEN surface_remove(s, s.active_view[1]) ELSE s

\* Surface::event, KeyUp PageUp (delta 1) and PageDown (delta -1)
key_page(s, delta) ==
    IF s.active_view # None
    THEN [s EXCEPT !.project = project_shift_layer(@, s.active_view[1], delta)]
    ELSE s

\* The permutations of a set of ids, as sequences.
Perms(S) == {q \in [1..Cardinality(S) -> S] : \A x \in S : \E i \in DOMAIN q : q[i] = x}

\* The projects Project::open reads: files that Project::save wrote, with
\* the images numbered by their index and every image on one layer.
ProjectFiles ==
    UNION {{[images |-> [i \in 1..n |-> [id |-> i - 1, origin |-> 0]], layers |-> l,
             dirty |-> FALSE] : l \in Perms(0..(n - 1))} : n \in 0..MaxImages}

\* The editor takes a step that cannot panic.
EditStep(s) ==
    /\ crash = "none"
    /\ edit' = s
    /\ UNCHANGED <<viewvars, surfvars, codecvars, layvars, pool, stats>>

\* The editor takes a step that may panic on an index.
EditTry(r) ==
    /\ crash = "none"
    /\ edit' = r.s
    /\ crash' = IF r.panic THEN "index_oob" ELSE crash
    /\ UNCHANGED <<ext, file, anim, pstate, chan, sent, view, pc, start_frame, ticks,
                   drawn, became, recvs, tick>>
    /\ UNCHANGED <<surfvars, codecvars, layvars, pool, stats>>

\* Event::Command(COMMAND_ADD_IMAGE)
SurfaceAdd == Len(edit.view_trackers) < MaxImages /\ EditStep(surface_add(edit))
\* Surface::remove called with any id.
SurfaceRemove == \E view_id \in Ids : EditStep(surface_remove(edit, view_id))
MouseDown == \E hit \in SUBSET (0..(MaxImages - 1)) : EditTry(mouse_down(edit, hit))
MouseMove == \E origin \in Origins : EditStep(mouse_move(edit, origin))
MouseUp == \E origin \in Origins : EditTry(mouse_up(edit, origin))
KeyDelete == EditStep(key_delete(edit))
KeyPage == \E delta \in {1, -1} : EditStep(key_page(edit, delta))
\* What Project::save meets: the file written, serde_json::to_string failing,
\* or File::create, write_all or sync_all failing (an `expect`).
SaveOutcomes == {"ok", "json_err", "io_err"}

\* Event::Command(SAVE_FILE_AS)
SaveFileAs ==
    \E outcome \in SaveOutcomes :
        /\ crash = "none"
        /\ edit' = [edit EXCEPT !.project = project_save(@, outcome = "ok")]
        /\ crash' = IF outcome = "io_err" THEN "save_failed" ELSE crash
        /\ UNCHANGED <<ext, file, anim, pstate, chan, sent, view, pc, start_frame, ticks,
                       drawn, became, recvs, tick>>
        /\ UNCHANGED <<surfvars, codecvars, layvars, pool, stats>>
\* Event::Command(OPEN_FILE)
OpenFile == \E project \in ProjectFiles : EditStep(surface_set_project(edit, project))

EditInit ==
    /\ AppInit
    /\ ext = "none" /\ file = "ok" /\ anim = <<>>
    /\ pstate = "unspawned" /\ chan = <<>> /\ sent = <<>> /\ view = NoView /\ pc = "new"
    /\ start_frame = 0 /\ crash = "none" /\ ticks = 0 /\ drawn = <<>> /\ became = <<>>
    /\ recvs = 0 /\ tick = NoTick
    /\ views = <<>> /\ layer = 0 /\ vpc = "none" /\ vstart = 0 /\ sticks = 0
    /\ codec = NoJob

EditNext ==
    \/ SurfaceAdd
    \/ SurfaceRemove
    \/ MouseDown
    \/ MouseMove
    \/ MouseUp
    \/ KeyDelete
    \/ KeyPage
    \/ SaveFileAs
    \/ OpenFile

\* A Project on its own, from Project::new.
ProjectAdd ==
    /\ Len(edit.project.images) < MaxImages
    /\ EditStep([edit EXCEPT !.project = project_add(@)])
ProjectSetOrigin ==
    \E image_id \in Ids, origin \in Origins :
        EditStep([edit EXCEPT !.project = project_set_origin(@, image_id, origin)])
ProjectShiftLayer ==
    \E image_id \in Ids, delta \in Deltas :
        EditStep([edit EXCEPT !.project = project_shift_layer(@, image_id, delta)])
ProjectSave == SaveFileAs

ProjectNext ==
    \/ ProjectAdd
    \/ ProjectSetOrigin
    \/ ProjectShiftLayer
    \/ ProjectSave

ProjectSpec == EditInit /\ [][ProjectNext]_vars

\* The Surface under mouse, keyboard and command events.
EditSpec == EditInit /\ [][EditNext]_vars

\* ------------------------------------------------------------ the Stats

\* The most AnimFrame events the Stats widget handles.
MaxSamples == 725

\* The intervals of the AnimFrame events, in ns, as the course they take:
\* the interval of event k (from 0) under each pattern.
Patterns == {"zero", "steady", "alternate", "spike", "late"}
interval_at(pattern, k) ==
    CASE pattern = "zero" -> 0
      [] pattern = "steady" -> 2
      [] pattern = "alternate" -> IF k % 2 = 0 THEN 2 ELSE 5
      [] pattern = "spike" -> IF k = 0 THEN 5 ELSE 0
      [] OTHER -> IF k < FRAME_TIME_COUNT THEN 0 ELSE 3

\* Stats::add_frame_time
add_frame_time(st, frame_time) ==
    LET index == st.frame_time_index + 1
        written == [st EXCEPT !.frame_times[st.frame_time_index + 1] = frame_time]
    IN IF index = FRAME_TIME_COUNT
       THEN [written EXCEPT !.initializing = FALSE, !.frame_time_index = 0]
       ELSE [written EXCEPT !.frame_time_index = index]

\* The sum of frame_times[lo..hi], by halves.
RECURSIVE sum_range(_, _, _)
sum_range(frame_times, lo, hi) ==
    IF lo > hi THEN 0
    ELSE IF lo = hi THEN frame_times[lo]
    ELSE LET mid == (lo + hi) \div 2
         IN sum_range(frame_times, lo, mid) + sum_range(frame_times, mid + 1, hi)

\* `self.frame_times.iter().take(n).sum()`
sum_take(frame_times, n) == sum_range(frame_times, 1, n)

\* Faulty variant: the average is always taken over the whole ring.
average_fps_ring(st) ==
    LET avg_frame_time == sum_take(st.frame_times, FRAME_TIME_COUNT) \div FRAME_TIME_COUNT
    IN IF avg_frame_time > 0 THEN 1000000000 \div avg_frame_time ELSE 0

\* Stats::average_fps
average_fps(st) ==
    LET timed_frame_count == IF st.initializing THEN st.frame_time_index ELSE FRAME_TIME_COUNT
        total_frame_time == sum_take(st.frame_times, timed_frame_count)
        avg_frame_time == IF timed_frame_count > 0
                          THEN total_frame_time \div timed_frame_count
                          ELSE 0
    IN IF avg_frame_time > 0 THEN 1000000000 \div avg_frame_time ELSE 0

\* Stats::event, Event::AnimFrame(interval)
stats_anim_frame(st, interval) ==
    LET added == add_frame_time(st, interval)
    IN [added EXCEPT !.fps = average_fps(added), !.fed = Append(@, interval)]

StatsAnimFrame ==
    /\ Len(stats.fed) < MaxSamples
    /\ stats' = stats_anim_frame(stats, interval_at(stats.pattern, Len(stats.fed)))
    /\ UNCHANGED <<viewvars, surfvars, codecvars, layvars, edit, pool>>

StatsInit ==
    /\ edit = Surface_new(Project_new) /\ pool = PoolStart /\ lay = NoLayout
    /\ \E pattern \in Patterns : stats = [Stats_new EXCEPT !.pattern = pattern]
    /\ ext = "none" /\ file = "ok" /\ anim = <<>>
    /\ pstate = "unspawned" /\ chan = <<>> /\ sent = <<>> /\ view = NoView /\ pc = "new"
    /\ start_frame = 0 /\ crash = "none" /\ ticks = 0 /\ drawn = <<>> /\ became = <<>>
    /\ recvs = 0 /\ tick = NoTick
    /\ views = <<>> /\ layer = 0 /\ vpc = "none" /\ vstart = 0 /\ sticks = 0
    /\ codec = NoJob

StatsNext == StatsAnimFrame

StatsSpec == StatsInit /\ [][StatsNext]_vars

\* ---------------------------------------------------- the instance pool

\* The most connections made to the listener.
MaxConns == 2

\* Filenames, as the characters of their bytes.
Filenames == {<<"a">>, <<"b", " ">>}

\* The command lines: no filename, one, two.
FilenameLists == {<<>>} \cup {<<f>> : f \in Filenames} \cup {<<f, g>> : f, g \in Filenames}

\* What LocalSocketStream::connect meets: a primary listening, no socket
\* (ErrorKind::NotFound), or another error.
Sockets == {"listening", "absent", "refused"}

\* The bytes initialize writes to a connection: the first filename and a
\* newline, nothing when no filename was given.
written_bytes(filenames) == IF Len(filenames) > 0 THEN filenames[1] \o <<"\n">> ELSE <<>>

\* pool::initialize, with claim_primacy up to the spawn of its thread;
\* write_ok and bind_ok are what write_all and bind meet (each an `expect`).
initialize(q, write_ok, bind_ok) ==
    IF q.socket = "listening"
    THEN IF Len(q.filenames) > 0
         THEN IF write_ok
              THEN [q EXCEPT !.pc = "returned", !.ret = "true",
                             !.written = written_bytes(q.filenames)]
              ELSE [q EXCEPT !.pc = "panicked"]
         ELSE [q EXCEPT !.pc = "returned", !.ret = "false"]
    ELSE IF q.socket = "absent"
    THEN IF bind_ok
         THEN [q EXCEPT !.pc = "returned", !.ret = "false", !.listener = TRUE,
                        !.thread = "recv"]
         ELSE [q EXCEPT !.pc = "panicked"]
    ELSE [q EXCEPT !.pc = "returned", !.ret = "false"]

\* BufRead::read_line: the bytes up to and including the first newline, all
\* of them when there is none.
RECURSIVE read_line(_)
read_line(bytes) ==
    IF bytes = <<>> THEN <<>>
    ELSE IF Head(bytes) = "\n" THEN <<"\n">>
    ELSE <<Head(bytes)>> \o read_line(Tail(bytes))

Whitespace == {" ", "\n"}

\* str::trim
RECURSIVE trim_start(_)
trim_start(b) == IF b # <<>> /\ Head(b) \in Whitespace THEN trim_start(Tail(b)) ELSE b
RECURSIVE trim_end(_)
trim_end(b) ==
    IF b # <<>> /\ b[Len(b)] \in Whitespace THEN trim_end(SubSeq(b, 1, Len(b) - 1)) ELSE b
trim(b) == trim_end(trim_start(b))

\* One turn of `for conn in listener.incoming().filter_map(handle_error)`:
\* a failed connection is dropped, a read error reported, and what
\* read_line returns with Ok is trimmed and submitted.
serve(q) ==
    LET conn == Head(q.incoming)
        buffer == read_line(conn.bytes)
    IN IF ~conn.ok \/ ~conn.readable
       THEN [q EXCEPT !.incoming = Tail(@), !.accepted = @ + 1]
       ELSE [q EXCEPT !.incoming = Tail(@), !.accepted = @ + 1,
                      !.lines = IF buffer # <<>> THEN Append(@, buffer) ELSE @,
                      !.submitted = Append(@, trim(buffer))]

PoolStep(q) ==
    /\ pool' = q
    /\ UNCHANGED <<viewvars, surfvars, codecvars, layvars, edit, stats>>

Initialize ==
    /\ pool.pc = "start"
    /\ \E write_ok, bind_ok \in BOOLEAN : PoolStep(initialize(pool, write_ok, bind_ok))

\* The application hands its event sink to the channel.
SendSink ==
    /\ pool.pc = "returned" /\ pool.sink = "held"
    /\ PoolStep([pool EXCEPT !.sink = "sent"])

\* The application drops the sender without sending.
DropSink ==
    /\ pool.pc = "returned" /\ pool.sink = "held"
    /\ PoolStep([pool EXCEPT !.sink = "dropped"])

\* `receiver.recv()` in the listener thread
ThreadRecv ==
    /\ pool.thread = "recv" /\ pool.sink # "held"
    /\ PoolStep([pool EXCEPT !.thread = IF pool.sink = "sent" THEN "accepting" ELSE "ended"])

\* Another instance runs initialize with its own filenames and connects to
\* the listener, or a connection fails or breaks.
ClientConnect ==
    /\ pool.listener /\ pool.connected < MaxConns
    /\ \E filenames \in FilenameLists, ok, readable \in BOOLEAN :
          PoolStep([pool EXCEPT !.connected = @ + 1,
                                !.incoming = Append(@, [ok |-> ok, readable |-> readable,
                                                        bytes |-> written_bytes(filenames)])])

\* The listener thread takes the next connection.
ThreadServe ==
    /\ pool.thread = "accepting" /\ pool.incoming # <<>>
    /\ PoolStep(serve(pool))

PoolInit ==
    /\ edit = Surface_new(Project_new) /\ stats = Stats_new /\ lay = NoLayout
    /\ \E filenames \in FilenameLists, socket \in Sockets :
          pool = [PoolStart EXCEPT !.filenames = filenames, !.socket = socket]
    /\ ext = "none" /\ file = "ok" /\ anim = <<>>
    /\ pstate = "unspawned" /\ chan = <<>> /\ sent = <<>> /\ view = NoView /\ pc = "new"
    /\ start_frame = 0 /\ crash = "none" /\ ticks = 0 /\ drawn = <<>> /\ became = <<>>
    /\ recvs = 0 /\ tick = NoTick
    /\ views = <<>> /\ layer = 0 /\ vpc = "none" /\ vstart = 0 /\ sticks = 0
    /\ codec = NoJob

PoolNext ==
    \/ Initialize
    \/ SendSink
    \/ DropSink
    \/ ThreadRecv
    \/ ClientConnect
    \/ ThreadServe

PoolSpec == PoolInit /\ [][PoolNext]_vars

\* -------------------------------------------------------------- the Surface
\* Several Views on one Surface: Surface::event hands every event to each View
\* and Surface::paint paints the Views one after the other in layer order, all
\* on the UI thread. Each View is the View above, with a channel and a producer
\* of its own; a producer is scheduled ("running") or stuck for ever in its
\* decoder ("hung": it neither sends nor ends).

\* Views on the Surface.
NViews == 2
\* AnimFrame events the Surface handles in one behaviour.
MaxSurfaceTicks == 1

\* The delays of the frames the producer of a View on the Surface has to send.
SurfaceAnimations == {<<gif_delay(5)>>, <<gif_delay(0), gif_delay(10)>>}

\* ViewTracker::new: a fresh View, its empty channel and its producer.
ViewTracker(p, d) == [v |-> view_new("gif", "ok").view, q |-> <<>>, p |-> p, left |-> d, n |-> 0]

\* Surface::event for AnimFrame: every View handles it.
SurfaceAnimFrame ==
    /\ layer = 0
    /\ sticks < MaxSurfaceTicks
    /\ \E interval \in Intervals :
          views' = [i \in DOMAIN views |-> [views[i] EXCEPT !.v = anim_frame(@, interval)]]
    /\ sticks' = sticks + 1
    /\ UNCHANGED <<layer, vpc, vstart>>
    /\ UNCHANGED viewvars
    /\ UNCHANGED codecvars
    /\ UNCHANGED appvars
    /\ UNCHANGED layvars

\* Surface::paint up to the first recv() of the View of the lowest layer.
SurfacePaintBegin ==
    /\ layer = 0
    /\ layer' = 1
    /\ vpc' = paint_branch(views[1].v)
    /\ vstart' = views[1].v.current_frame
    /\ UNCHANGED <<views, sticks>>
    /\ UNCHANGED viewvars
    /\ UNCHANGED codecvars
    /\ UNCHANGED appvars
    /\ UNCHANGED layvars

\* The paint of the View at position layer goes on past a recv(); when it
\* returns, Surface::paint goes to the next layer, or returns after the last.
SurfacePaintView ==
    /\ layer >= 1
    /\ LET t == views[layer]
       IN /\ RecvReady(t.v, t.q, t.p = "finished")
          /\ LET r == IF vpc = "paint_current" THEN current_frame(t.v, t.q)
                                               ELSE next_frame(t.v, t.q)
                 again == vpc = "paint_loop" /\ loop_again(r.v, vstart)
                 last == layer = Len(views)
             IN /\ views' = [views EXCEPT ![layer] = [t EXCEPT !.v = r.v, !.q = r.q]]
                /\ layer' = IF again THEN layer ELSE IF last THEN 0 ELSE layer + 1
                /\ vpc' = IF again THEN vpc ELSE IF last THEN "none"
                          ELSE paint_branch(views[layer + 1].v)
                /\ vstart' = IF again THEN vstart ELSE IF last THEN 0
                             ELSE views[layer + 1].v.current_frame
    /\ UNCHANGED sticks
    /\ UNCHANGED viewvars
    /\ UNCHANGED codecvars
    /\ UNCHANGED appvars
    /\ UNCHANGED layvars

\* The producer of View i sends its next frame.
SurfaceProducerSend(i) ==
    /\ views[i].p = "running"
    /\ views[i].left # <<>>
    /\ views' = [views EXCEPT ![i] =
                    [@ EXCEPT !.q = Append(@, [data |-> views[i].n + 1,
                                                width |-> header_size.width,
                                                height |-> header_size.height,
                                                delay |-> Head(views[i].left)]),
                              !.left = Tail(@),
                              !.n = @ + 1]]
    /\ UNCHANGED <<layer, vpc, vstart, sticks>>
    /\ UNCHANGED viewvars
    /\ UNCHANGED codecvars
    /\ UNCHANGED appvars
    /\ UNCHANGED layvars

\* The producer of View i ends and drops its Sender.
SurfaceProducerFinish(i) ==
    /\ views[i].p = "running"
    /\ views[i].left = <<>>
    /\ views' = [views EXCEPT ![i] = [@ EXCEPT !.p = "finished"]]
    /\ UNCHANGED <<layer, vpc, vstart, sticks>>
    /\ UNCHANGED viewvars
    /\ UNCHANGED codecvars
    /\ UNCHANGED appvars
    /\ UNCHANGED layvars

SurfaceProducer == \E i \in DOMAIN views : SurfaceProducerSend(i) \/ SurfaceProducerFinish(i)

\* Surface::new: one ViewTracker per image of the project.
SurfaceInit ==
    /\ AppInit
    /\ views \in [1..NViews -> {ViewTracker(p, d) : p \in {"running", "hung"},
                                                   d \in SurfaceAnimations}]
    /\ layer = 0
    /\ vpc = "none"
    /\ vstart = 0
    /\ sticks = 0
    /\ codec = NoJob
    /\ ext = "gif" /\ file = "ok" /\ anim = <<>> /\ pstate = "unspawned"
    /\ chan = <<>> /\ sent = <<>> /\ view = NoView /\ pc = "new" /\ start_frame = 0
    /\ crash = "none" /\ ticks = 0 /\ drawn = <<>> /\ became = <<>> /\ recvs = 0
    /\ tick = NoTick

SurfaceNext ==
    \/ SurfaceAnimFrame
    \/ SurfacePaintBegin
    \/ SurfacePaintView
    \/ SurfaceProducer

SurfaceSpec == SurfaceInit /\ [][SurfaceNext]_vars

\* The UI thread keeps running the paint in progress, and every producer that
\* is not hung keeps being scheduled.
SurfaceFairSpec ==
    /\ SurfaceSpec
    /\ WF_vars(SurfacePaintView)
    /\ WF_vars(SurfaceProducer)

\* ------------------------------------------------- the decoders, frame by frame
\* What a producer makes of one frame of a file is a function of what the
\* decoding library hands it. CodecSpec applies these functions to inputs
\* drawn from the sets below, one input in a behaviour; codec holds the input
\* and its output.

\* 16-bit values: the ends of the range, its middle, and small values around
\* the default denominator 100.
U16Samples == {0, 1, 2, 3, 7, 99, 100, 101, 255, 256, 1000, 32767, 32768, 65534, 65535}

\* reader.info().frame_control of a PNG frame: None, or the fcTL of an APNG.
FrameControls ==
    {[some |-> FALSE, delay_num |-> 0, delay_den |-> 0]}
    \cup {[some |-> TRUE, delay_num |-> n, delay_den |-> d] : n \in U16Samples, d \in U16Samples}

\* `let mut delay = 0; if let Some(more_info) = reader.info().frame_control {..}`
png_frame_delay(fc) ==
    IF fc.some THEN png_delay_u64(fc.delay_num, fc.delay_den)
    ELSE [delay |-> <<>>, overflow |-> FALSE, negative |-> FALSE]

\* The PNG producer computes the delay of a frame.
PngDelayJob ==
    /\ codec = NoJob
    /\ \E fc \in FrameControls :
          codec' = [op |-> "png_delay", in |-> fc, out |-> png_frame_delay(fc)]
    /\ UNCHANGED <<viewvars, surfvars, appvars, layvars>>

\* Declared timings of one frame, those of Timings and some more.
TimingSamples(e) ==
    Timings(e) \cup (IF e = "gif" THEN {1, 50}
                     ELSE IF e = "webp" THEN {16, 100}
                     ELSE IF e = "png" THEN {<<1, 0>>, <<2, 7>>}
                     ELSE {})

\* A producer decodes a whole file: the delays of its frames.
TimingJob ==
    /\ codec = NoJob
    /\ \E e \in {"gif", "webp", "png", "jpg"} :
          \E d \in SeqsUpTo(TimingSamples(e), IF e = "jpg" THEN 1 ELSE MaxFrames) :
             codec' = [op |-> "timing", in |-> [ext |-> e, d |-> d], out |-> decode(e, d)]
    /\ UNCHANGED <<viewvars, surfvars, appvars, layvars>>

\* Byte values of a colour channel, and the RGBA colours made of them.
ByteSamples == {0, 128, 255}
Colours == [r : ByteSamples, g : ByteSamples, b : ByteSamples, a : ByteSamples]

\* Images of one or two pixels.
Images(C) == {<<c>> : c \in C} \cup {<<c1, c2>> : c1 \in C, c2 \in C}

\* The bytes of one pixel as the WebP decoder lays them out in frame.data()
\* for its colour mode.
webp_bytes(mode, c) ==
    IF mode = "Rgba" THEN <<c.r, c.g, c.b, c.a>> ELSE <<c.b, c.g, c.r, c.a>>

RECURSIVE Flatten(_)
Flatten(ss) == IF ss = <<>> THEN <<>> ELSE Head(ss) \o Flatten(Tail(ss))

\* frame.data() of a frame showing the colours img.
webp_data(mode, img) == Flatten([i \in 1..Len(img) |-> webp_bytes(mode, img[i])])

\* data.chunks(4)
chunks4(data) == [i \in 1..(Len(data) \div 4) |-> SubSeq(data, 4 * i - 3, 4 * i)]

\* Faulty variant: the colour mode of the frame is not looked at.
webp_rgba_raw(mode, data) ==
    [i \in 1..Len(chunks4(data)) |->
        LET bytes == chunks4(data)[i]
        IN [r |-> bytes[1], g |-> bytes[2], b |-> bytes[3], a |-> bytes[4]]]

\* formats/webp.rs: `match frame.color_mode()` builds the RGBA8 pixels.
webp_rgba(mode, data) ==
    [i \in 1..Len(chunks4(data)) |->
        LET bytes == chunks4(data)[i]
        IN IF mode = "Rgba"
           THEN [r |-> bytes[1], g |-> bytes[2], b |-> bytes[3], a |-> bytes[4]]
           ELSE [r |-> bytes[3], g |-> bytes[2], b |-> bytes[1], a |-> bytes[4]]]

\* ui/view.rs: `data: Vec::from(frame.data())`, which load_frame hands to
\* make_image as ImageFormat::RgbaPremul: the bytes are read in RGBA order.
view_webp_rgba(data) ==
    [i \in 1..Len(chunks4(data)) |->
        LET bytes == chunks4(data)[i]
        IN [r |-> bytes[1], g |-> bytes[2], b |-> bytes[3], a |-> bytes[4]]]

\* The colour modes a frame can have where the decoder is made. Both sites
\* call Decoder::new(&buffer), which decodes to the default mode, Rgba; the
\* match of formats/webp.rs also takes Bgra.
ColourModes(site) == IF site = "formats" THEN {"Rgba", "Bgra"} ELSE {"Rgba"}

\* A WebP producer converts the pixels of one frame.
WebpPixelsJob ==
    /\ codec = NoJob
    /\ \E site \in {"formats", "view"} :
          \E mode \in ColourModes(site) :
             \E img \in Images(Colours) :
                codec' = [op |-> "webp_pixels",
                          in |-> [site |-> site, mode |-> mode, img |-> img],
                          out |-> IF site = "formats" THEN webp_rgba(mode, webp_data(mode, img))
                                  ELSE view_webp_rgba(webp_data(mode, img))]
    /\ UNCHANGED <<viewvars, surfvars, appvars, layvars>>

\* The colours of a PNG of colour type Rgb (8-bit samples), and its tRNS
\* chunk: absent, or the one colour that is to be transparent.
RGBs == [r : ByteSamples, g : ByteSamples, b : ByteSamples]
Trns == {[some |-> FALSE, key |-> <<>>]} \cup
        {[some |-> TRUE, key |-> <<c.r, c.g, c.b>>] : c \in RGBs}

\* The bytes reader.next_frame leaves in buf for a frame of colour type Rgb.
png_rgb_bytes(img) == Flatten([i \in 1..Len(img) |-> <<img[i].r, img[i].g, img[i].b>>])

\* formats/png.rs, ColorType::Rgb: every byte is pushed, and after each third
\* byte an alpha: 0 when the three bytes equal trns[0..3], 255 otherwise and
\* when there is no tRNS.
RECURSIVE png_rgb_push(_, _, _, _)
png_rgb_push(trns, bytes, i, data) ==
    IF bytes = <<>> THEN data
    ELSE LET pushed == Append(data, Head(bytes))
             len == Len(pushed)
         IN IF i + 1 = 3
            THEN png_rgb_push(trns, Tail(bytes), 0,
                    Append(pushed,
                        IF trns.some
                        THEN IF /\ trns.key[1] = pushed[len - 2]
                                /\ trns.key[2] = pushed[len - 1]
                                /\ trns.key[3] = pushed[len]
                             THEN 0 ELSE 255
                        ELSE 255))
            ELSE png_rgb_push(trns, Tail(bytes), i + 1, pushed)

png_rgb_data(trns, bytes) == png_rgb_push(trns, bytes, 0, <<>>)

\* ui/view.rs, PNG branch: every byte is pushed, and after each third byte
\* the value 40; neither the tRNS chunk nor the colour type is read.
RECURSIVE view_png_push(_, _, _)
view_png_push(bytes, i, data) ==
    IF bytes = <<>> THEN data
    ELSE IF i + 1 = 3
         THEN view_png_push(Tail(bytes), 0, Append(Append(data, Head(bytes)), 40))
         ELSE view_png_push(Tail(bytes), i + 1, Append(data, Head(bytes)))

view_png_data(bytes) == view_png_push(bytes, 0, <<>>)

\* data.chunks(4) read as RGBA8 (formats/png.rs), or by make_image as
\* RgbaPremul (ui/view.rs).
rgba_pixels(data) ==
    [i \in 1..Len(chunks4(data)) |->
        LET bytes == chunks4(data)[i]
        IN [r |-> bytes[1], g |-> bytes[2], b |-> bytes[3], a |-> bytes[4]]]

\* A PNG producer converts the pixels of one frame of colour type Rgb.
PngPixelsJob ==
    /\ codec = NoJob
    /\ \E site \in {"formats", "view"} :
          \E trns \in Trns :
             \E img \in Images(RGBs) :
                codec' = [op |-> "png_pixels",
                          in |-> [site |-> site, trns |-> trns, img |-> img],
                          out |-> IF site = "formats"
                                  THEN rgba_pixels(png_rgb_data(trns, png_rgb_bytes(img)))
                                  ELSE rgba_pixels(view_png_data(png_rgb_bytes(img)))]
    /\ UNCHANGED <<viewvars, surfvars, appvars, layvars>>

\* GIF: the logical screen is a strip of CanvasW pixels. A pixel of a frame is
\* a palette colour ("a", "b") or the frame's transparent index ("t"); a
\* pixel of the screen is a palette colour or RGBA8::default() ("bg").
CanvasW == 3
DisposalMethods == {"Keep", "Background", "Previous"}
GifFrames ==
    UNION {{[left |-> l, pixels |-> p, dispose |-> m] :
                p \in UNION {[1..n -> {"a", "b", "t"}] : n \in 1..(CanvasW - l)},
                m \in DisposalMethods} : l \in 0..(CanvasW - 1)}
GifFiles == {<<f>> : f \in GifFrames} \cup {<<f1, f2>> : f1 \in GifFrames, f2 \in GifFrames}

\* The columns of the screen a frame covers.
Region(frame) == (frame.left + 1)..(frame.left + Len(frame.pixels))

\* Screen::new(width, height, RGBA8::default(), global_palette)
Screen_new == [pixels |-> [x \in 1..CanvasW |-> "bg"],
               disposal |-> [method |-> "Keep", region |-> {}, saved |-> <<>>]]

\* What screen.blit_frame(frame) does (gif_dispose, following GIF89a): the
\* disposal of the frame before is carried out (its region is cleared for
\* Background and put back for Previous), the disposal of this frame is
\* noted, and the frame's pixels other than the transparent index are drawn.
blit_frame(screen, frame) ==
    LET d == screen.disposal
        disposed == [x \in 1..CanvasW |->
                        IF x \in d.region /\ d.method = "Background" THEN "bg"
                        ELSE IF x \in d.region /\ d.method = "Previous" THEN d.saved[x]
                        ELSE screen.pixels[x]]
    IN [pixels |-> [x \in 1..CanvasW |->
                        IF x \in Region(frame) /\ frame.pixels[x - frame.left] # "t"
                        THEN frame.pixels[x - frame.left]
                        ELSE disposed[x]],
        disposal |-> [method |-> frame.dispose, region |-> Region(frame), saved |-> disposed]]

\* Faulty variant: a new screen for every frame, so the raw frame is sent.
RECURSIVE gif_images_fresh(_, _)
gif_images_fresh(screen, frames) ==
    IF frames = <<>> THEN <<>>
    ELSE LET blitted == blit_frame(Screen_new, Head(frames))
         IN <<[data |-> blitted.pixels, width |-> Len(blitted.pixels)]>>
                \o gif_images_fresh(blitted, Tail(frames))

\* The GIF producer's loop: every frame read is blitted onto the one screen
\* made before the loop, and the whole screen is sent.
RECURSIVE gif_images(_, _)
gif_images(screen, frames) ==
    IF frames = <<>> THEN <<>>
    ELSE LET blitted == blit_frame(screen, Head(frames))
         IN <<[data |-> blitted.pixels, width |-> Len(blitted.pixels)]>>
                \o gif_images(blitted, Tail(frames))

\* A GIF producer decodes a file of one or two frames.
GifJob ==
    /\ codec = NoJob
    /\ \E frames \in GifFiles :
          codec' = [op |-> "gif", in |-> frames, out |-> gif_images(Screen_new, frames)]
    /\ UNCHANGED <<viewvars, surfvars, appvars, layvars>>

\* PNG frames: the image size the header declares, the frame-control record
\* of the frame read (absent for a plain PNG; otherwise a sub-frame lying
\* inside the image) and the colour type.
ImageSizes == [width : 1..2, height : 1..2]
ColorTypes == {"Grayscale", "GrayscaleAlpha", "Indexed", "Rgb", "Rgba"}
SubFrames(size) ==
    {[some |-> FALSE, width |-> size.width, height |-> size.height, x_offset |-> 0, y_offset |-> 0]}
    \cup {fc \in [some : {TRUE}, width : 1..size.width, height : 1..size.height,
                   x_offset : 0..(size.width - 1), y_offset : 0..(size.height - 1)] :
              fc.x_offset + fc.width <= size.width /\ fc.y_offset + fc.height <= size.height}

\* Bytes per pixel of the decoder's output for 8-bit samples.
samples(color_type) ==
    CASE color_type = "Grayscale" -> 1
      [] color_type = "GrayscaleAlpha" -> 2
      [] color_type = "Indexed" -> 1
      [] color_type = "Rgb" -> 3
      [] color_type = "Rgba" -> 4

\* buf[..info.buffer_size()]: the bytes of the frame read, which has the
\* sub-frame's size.
frame_bytes(fc, color_type) == [i \in 1..(fc.width * fc.height * samples(color_type)) |-> 0]

\* formats/png.rs: the size sent is the frame-control record's when there is
\* one, else the size next_frame reports; the pixel data are built for Rgb
\* and Rgba only, the other colour types push nothing.
png_frame(fc, color_type) ==
    [width |-> fc.width, height |-> fc.height,
     data |-> CASE color_type = "Rgb" ->
                      png_rgb_data([some |-> FALSE, key |-> <<>>], frame_bytes(fc, color_type))
                [] color_type = "Rgba" -> frame_bytes(fc, color_type)
                [] OTHER -> <<>>]

\* ui/view.rs: the same size; the data are built as for Rgb whatever the
\* colour type.
view_png_frame(fc, color_type) ==
    [width |-> fc.width, height |-> fc.height,
     data |-> view_png_data(frame_bytes(fc, color_type))]

\* A PNG producer builds the frame it sends from one frame read.
PngFrameJob ==
    /\ codec = NoJob
    /\ \E site \in {"formats", "view"} :
          \E size \in ImageSizes :
             \E fc \in SubFrames(size) :
                \E color_type \in ColorTypes :
                   codec' = [op |-> "png_frame",
                             in |-> [site |-> site, size |-> size, fc |-> fc,
                                     color_type |-> color_type],
                             out |-> IF site = "formats" THEN png_frame(fc, color_type)
                                     ELSE view_png_frame(fc, color_type)]
    /\ UNCHANGED <<viewvars, surfvars, appvars, layvars>>

CodecInit ==
    /\ AppInit
    /\ codec = NoJob
    /\ views = <<>> /\ layer = 0 /\ vpc = "none" /\ vstart = 0 /\ sticks = 0
    /\ ext = "gif" /\ file = "ok" /\ anim = <<>> /\ pstate = "unspawned"
    /\ chan = <<>> /\ sent = <<>> /\ view = NoView /\ pc = "new" /\ start_frame = 0
    /\ crash = "none" /\ ticks = 0 /\ drawn = <<>> /\ became = <<>> /\ recvs = 0
    /\ tick = NoTick

CodecNext ==
    \/ PngDelayJob
    \/ TimingJob
    \/ WebpPixelsJob
    \/ PngPixelsJob
    \/ GifJob
    \/ PngFrameJob

CodecSpec == CodecInit /\ [][CodecNext]_vars

\* ------------------------------------------------------------------ claims

\* N, the total number of frames of the animation.
N == Len(anim)
AdvanceBound == IF N > 1 THEN N ELSE 1
AllZeroDelay == \A k \in 1..N : anim[k] = 0

\* C1: the advance loop of paint terminates whenever the producer eventually
\* delivers or closes: a paint that entered the loop leaves it; one paint makes
\* at most max(1, N) frame advances; and when paint has returned, current_frame
\* indexes a cached frame whenever the cache is not empty.
C1_AdvanceLoopTerminates ==
    /\ [](Len(became) <= AdvanceBound)
    /\ [](pc = "idle" /\ view.frames # <<>> => view.current_frame < Len(view.frames))
    /\ (pc = "paint_loop" ~> pc = "idle")

\* A paint of an animation of several zero-delay frames only, stopped by the
\* loop guard after N advances with current_delay still <= 0.
C1_Witness ==
    /\ pc = "idle"
    /\ N >= 2
    /\ AllZeroDelay
    /\ Len(became) = N
    /\ view.current_delay <= 0
    /\ view.current_frame = start_frame

\* C2: in every state of a View, whatever the events, the paints and the
\* producer did, current_frame indexes a cached frame as soon as one frame is
\* cached, and no operation has indexed frames out of bounds.
C2_FrameIndexValid ==
    /\ crash # "index_oob"
    /\ view.frames # <<>> => view.current_frame < Len(view.frames)

\* A paint that advanced past the last cached frame and wrapped to index 0.
C2_Witness ==
    /\ Len(view.frames) >= 2
    /\ Len(became) >= 2
    /\ became[Len(became)] = 0
    /\ view.current_frame = 0

\* The sum of the delays of the frames of indices idxs.
RECURSIVE SumDelays(_, _)
SumDelays(v, idxs) ==
    IF idxs = <<>> THEN 0 ELSE v.frames[Head(idxs) + 1].delay + SumDelays(v, Tail(idxs))

\* C3: deficit conservation. When the paint of a tick has returned,
\* current_delay is its value before the AnimFrame, minus the interval, plus the
\* delays of exactly the frames that became current in that paint; and no step
\* changes the current_delay of a live View in any other way (no clamp, no
\* reset): AnimFrame subtracts its interval, an advance adds the delay of the
\* new current frame.
C3_DeficitConserved ==
    /\ [](tick.state = "done" =>
            view.current_delay = tick.pre - tick.elapsed + SumDelays(view, became))
    /\ [][ \/ view'.current_delay = view.current_delay
           \/ ~ViewAlive'
           \/ /\ pc = "idle" /\ pc' = "idle" /\ ticks' = ticks + 1
              /\ view'.current_delay = view.current_delay - tick'.elapsed
           \/ /\ pc = "paint_loop" /\ Len(became') = Len(became) + 1
              /\ view'.current_delay =
                   view.current_delay + view'.frames[view'.current_frame + 1].delay ]_vars

\* A second tick that starts with the deficit the first one left, and advances.
C3_Witness ==
    /\ tick.state = "done"
    /\ ticks = 2
    /\ tick.pre < 0
    /\ tick.elapsed > 0
    /\ Len(became) >= 1

\* The animation of the scenario: delays 100 ms, 50 ms and 200 ms.
Scenario == <<100 * NsPerMs, 50 * NsPerMs, 200 * NsPerMs>>

\* A tick of 120 ms on the scenario's animation has been painted.
ScenarioTicked == anim = Scenario /\ tick.state = "done" /\ tick.elapsed = 120 * NsPerMs
\* The View was fresh from construction when the tick's AnimFrame arrived.
TickFromFresh == tick.cached = 0 /\ tick.frame = 0 /\ tick.pre = 0

\* C4 as stated: from a fresh View, on delays 100/50/200 ms, one tick of
\* 120 ms ends with current_frame = 1 and current_delay = 30 ms.
C4_Original ==
    ScenarioTicked /\ TickFromFresh =>
        view.current_frame = 1 /\ view.current_delay = 30 * NsPerMs

\* C4 amended: from a fresh View that tick ends with current_frame = 0 and
\* current_delay = -20 ms (only frame 0 is cached, the index wraps to 0 and the
\* loop guard ends the paint); it ends with current_frame = 1 and
\* current_delay = 30 ms when the View was painted before the tick, so that
\* frame 0 was current with current_delay = 100 ms.
C4_ScenarioTick ==
    /\ ScenarioTicked /\ TickFromFresh =>
          view.current_frame = 0 /\ view.current_delay = -20 * NsPerMs
    /\ ScenarioTicked /\ tick.cached >= 1 /\ tick.frame = 0 /\ tick.pre = 100 * NsPerMs =>
          view.current_frame = 1 /\ view.current_delay = 30 * NsPerMs

\* The tick of the scenario, from the fresh View.
C4_Witness ==
    /\ ScenarioTicked /\ TickFromFresh
    /\ ticks = 1
    /\ became = <<0>>

\* The tick of the scenario, on the View painted once before it.
C4_PaintedFirst ==
    /\ ScenarioTicked /\ tick.cached = 1 /\ tick.frame = 0 /\ tick.pre = 100 * NsPerMs
    /\ view.current_frame = 1

\* What recv() will return, in order, before it reports the channel
\* disconnected: the FrameSources queued, then those the producer still sends.
Future ==
    IF pstate = "running"
    THEN chan \o [k \in 1..(N - Len(sent)) |-> FrameSource(Len(sent) + k)]
    ELSE chan

\* The elapsed times a and b a duration is split into.
Splits == {0, 60 * NsPerMs, 120 * NsPerMs}

\* One tick: AnimFrame(elapsed), then one paint.
tick_of(v, q, elapsed) == paint(anim_frame(v, elapsed), q)

Playback(v) == <<v.current_frame, v.current_delay>>

\* The paint was not cut short by the loop guard: it left current_delay > 0,
\* or there is no frame at all.
Settled(v) == v.current_delay > 0 \/ v.frames = <<>>

\* C5 as stated: from every state of a View between two handlers, tick(a) then
\* tick(b) ends in the same (current_frame, current_delay) as tick(a+b).
C5_Original ==
    pc = "idle" =>
        \A a, b \in Splits :
            LET s1 == tick_of(view, Future, a)
                s2 == tick_of(s1.v, s1.q, b)
                s3 == tick_of(view, Future, a + b)
            IN Playback(s2.v) = Playback(s3.v)

\* C5 amended: for frame delays >= 0, tick(a) then tick(b) ends in the same
\* (current_frame, current_delay) as tick(a+b) whenever none of the three
\* paints is cut short by the loop guard, that is, each of them leaves
\* current_delay > 0 (or no frame was ever delivered).
C5_TickDecomposition ==
    pc = "idle" =>
        \A a, b \in Splits :
            LET s1 == tick_of(view, Future, a)
                s2 == tick_of(s1.v, s1.q, b)
                s3 == tick_of(view, Future, a + b)
            IN Settled(s1.v) /\ Settled(s2.v) /\ Settled(s3.v) =>
                   Playback(s2.v) = Playback(s3.v)

\* A state from which tick(a) and tick(b), a, b > 0, each advance the frame and
\* none of the three paints is cut short.
C5_Witness ==
    /\ pc = "idle"
    /\ view.frames # <<>>
    /\ \E a, b \in Splits \ {0} :
          LET s1 == tick_of(view, Future, a)
              s2 == tick_of(s1.v, s1.q, b)
              s3 == tick_of(view, Future, a + b)
          IN /\ Settled(s1.v) /\ Settled(s2.v) /\ Settled(s3.v)
             /\ s1.v.current_frame # view.current_frame
             /\ s2.v.current_frame # s1.v.current_frame

\* C6: when the producer has closed the channel without ever sending a frame,
\* no paint and no AnimFrame draws anything or panics, the cache stays empty and
\* current_frame stays 0.
C6_NoFramesNoOp ==
    pstate = "finished" /\ sent = <<>> =>
        /\ view.frames = <<>>
        /\ view.current_frame = 0
        /\ drawn = <<>>
        /\ crash # "index_oob"

\* A tick painted after the View found the channel closed and empty.
C6_Witness ==
    /\ pstate = "finished" /\ sent = <<>>
    /\ view.source = "None"
    /\ ticks = 2
    /\ tick.state = "done"
    /\ tick.elapsed > 0

\* The cache as the FrameSources it was made of.
Cached == [i \in 1..Len(view.frames) |->
              [data |-> view.frames[i].img, width |-> view.frames[i].width,
               height |-> view.frames[i].height, delay |-> view.frames[i].delay]]

\* C7: under every interleaving of the producer with the UI thread, as long as
\* the View lives, the cache
\* followed by the frames still queued is exactly what the producer has sent, in
\* order (so the cache is a prefix of it: nothing duplicated, skipped, reordered
\* or removed), and every step that changes the cache appends one frame to it.
C7_OrderedHandOff ==
    /\ [](ViewAlive => Cached \o chan = sent)
    /\ [][ \/ view'.frames = view.frames
           \/ ~ViewAlive'
           \/ /\ Len(view'.frames) = Len(view.frames) + 1
              /\ SubSeq(view'.frames, 1, Len(view.frames)) = view.frames ]_vars

\* Several frames cached while the producer has sent more, still queued.
C7_Witness ==
    /\ Len(view.frames) >= 2
    /\ chan # <<>>
    /\ pstate = "running"

\* C8: source becomes None only on a recv() that finds the channel empty with
\* the producer gone, so a View whose source is None has cached every frame
\* ever sent; from then on source stays None, no recv() is made, the channel is
\* not touched and the cache does not change.
C8_StreamingToComplete ==
    /\ [](ViewAlive /\ view.source = "None" =>
            SenderGone /\ chan = <<>> /\ Cached = sent)
    /\ [][ViewAlive' /\ view.source = "Some" /\ view'.source = "None" =>
            SenderGone /\ chan = <<>> /\ recvs' = recvs + 1 /\ view'.frames = view.frames]_vars
    /\ [][ViewAlive /\ ViewAlive' /\ view.source = "None" =>
            /\ view'.source = "None"
            /\ view'.frames = view.frames
            /\ recvs' = recvs
            /\ chan' = chan]_vars

\* A paint in progress on a View that is Complete with several frames.
C8_Witness ==
    /\ view.source = "None"
    /\ Len(view.frames) >= 2
    /\ pc = "paint_loop"
    /\ became # <<>>

\* C9: a View dropped while its producer still decodes makes the producer end
\* at its next send, silently: the thread does not panic.
C9_CancellationSilent == pc = "dropped" => pstate # "send_panic"

\* C10: for an extension that is missing or not one of gif, webp, jpg, jpeg,
\* png, View::new does not crash: the caller gets a View that yields no frames.
C10_UnsupportedRefused ==
    ext \notin Supported /\ pc # "new" => pc # "crashed" /\ view.frames = <<>>

\* C11: for a supported extension, a file that cannot be opened or whose
\* header cannot be parsed does not crash View::new: the View exists, its
\* producer sends nothing and it has no frame.
C11_OpenFailureNotFatal ==
    ext \in Supported /\ file # "ok" /\ pc # "new" =>
        crash = "none" /\ ViewAlive /\ sent = <<>> /\ view.frames = <<>>

\* The decoder of the producer has failed: an expect() or unwrap() of the
\* closure panicked, or PNG's next_frame returned the Err that ends its loop.
DecodeFailed == pstate = "decode_panic" \/ (ext = "png" /\ pstate = "finished")

\* C12: once the decoder has failed after k frames, the producer sends nothing
\* more and the channel is closed; the UI thread has not panicked; as long as
\* the View lives, the k frames sent are in its cache or still queued, in
\* order, and once it has found the channel closed its cache is exactly these
\* k frames, over which current_frame steps by one and wraps to 0.
C12_DecodeFailureKeepsFrames ==
    /\ [](DecodeFailed => SenderGone /\ crash = "none" /\ pc # "crashed")
    /\ [](DecodeFailed /\ ViewAlive => Cached \o chan = sent)
    /\ [](DecodeFailed /\ ViewAlive /\ view.source = "None" =>
            /\ Cached = sent
            /\ view.current_frame < (IF sent = <<>> THEN 1 ELSE Len(sent)))
    /\ [][DecodeFailed => sent' = sent /\ pstate' = pstate]_vars
    /\ [][DecodeFailed /\ ViewAlive' /\ view.source = "None" /\ view.frames # <<>> =>
            \/ view'.current_frame = view.current_frame
            \/ view'.current_frame = (view.current_frame + 1) % Len(view.frames)]_vars

\* A GIF whose decoder failed after two frames: the View has found the channel
\* closed, keeps both frames and a paint has just wrapped from the second to
\* the first.
C12_Witness ==
    /\ ext = "gif" /\ pstate = "decode_panic"
    /\ Len(sent) = 2
    /\ view.source = "None" /\ Len(view.frames) = 2
    /\ pc = "idle"
    /\ became # <<>> /\ became[Len(became)] = 0 /\ start_frame = 1

\* C13: a View whose producer is not hung is not kept from being painted by a
\* hung producer of another View: every Surface::paint that has still to paint
\* it does paint it, and Surface::paint returns to the event loop when only
\* Views that have frames or a live producer are left to paint.
C13_HungProducerIsolated ==
    \A j \in 1..NViews :
        (layer >= 1 /\ layer <= j /\ views[j].p # "hung") ~> (layer = 0 \/ layer > j)

C15_WaitingPaintDrawsCurrent ==
    /\ [](pc = "paint_current" => view.current_delay > 0 /\ drawn = <<>> /\ became = <<>>)
    /\ [][pc = "idle" /\ pc' \in {"paint_current", "paint_loop"} /\ view.current_delay > 0 =>
            pc' = "paint_current"]_vars
    /\ [][pc = "paint_current" /\ pc' # "paint_current" =>
            /\ pc' = "idle"
            /\ view'.current_frame = view.current_frame
            /\ view'.current_delay = view.current_delay
            /\ drawn' = <<view.current_frame>>
            /\ became' = <<>>]_vars

\* A tick of 120 ms that left current_delay > 0, painted: the frame drawn is
\* the second frame, current before and after.
C15_Witness ==
    /\ tick.state = "done"
    /\ tick.elapsed > 0
    /\ tick.pre - tick.elapsed > 0
    /\ view.current_delay = tick.pre - tick.elapsed
    /\ view.current_frame = 1 /\ tick.frame = 1
    /\ drawn = <<1>> /\ became = <<>>

\* C16 as stated: in every state, AnimFrame(0) followed by paint leaves
\* current_frame and current_delay as they were and advances no frame.
C16_Original ==
    tick.state = "done" /\ tick.elapsed = 0 =>
        /\ view.current_frame = tick.frame
        /\ view.current_delay = tick.pre
        /\ became = <<>>

\* C16 amended: AnimFrame(0) leaves the View as it is, and the paint after it
\* is the paint of that state: with current_delay > 0 it leaves current_frame
\* and current_delay as they were and advances no frame; with
\* current_delay <= 0 it advances at least one frame, unless no frame exists.
C16_ZeroTick ==
    /\ [][pc = "idle" /\ ticks' = ticks + 1 /\ tick'.elapsed = 0 => view' = view]_vars
    /\ [](tick.state = "done" /\ tick.elapsed = 0 =>
            IF tick.pre > 0
            THEN /\ view.current_frame = tick.frame
                 /\ view.current_delay = tick.pre
                 /\ became = <<>>
            ELSE view.frames = <<>> \/ became # <<>>)

\* AnimFrame(0) on a View that still waits on its second frame, painted.
C16_Witness ==
    /\ tick.state = "done"
    /\ tick.elapsed = 0
    /\ tick.pre > 0
    /\ tick.frame = 1
    /\ drawn = <<1>>

\* C17: a paint that advances k >= 1 frames draws k times: each advance is
\* followed by the draw of the frame it made current before the next advance,
\* the frames drawn are those that became current, in display order (one
\* further or back to 0), and when paint returns the last one drawn is the
\* current frame.
C17_DrawPerAdvance ==
    /\ [](became # <<>> => drawn = became)
    /\ [](\A i \in 1..(Len(became) - 1) : became[i + 1] = became[i] + 1 \/ became[i + 1] = 0)
    /\ [](pc = "idle" /\ became # <<>> => drawn[Len(drawn)] = view.current_frame)
    /\ [][Len(became') = Len(became) + 1 =>
            /\ drawn' = Append(drawn, view'.current_frame)
            /\ became' = Append(became, view'.current_frame)]_vars

\* A paint that advanced three times, from the second frame over the third
\* back to the first and on to the second.
C17_Witness ==
    /\ pc = "idle"
    /\ became = <<2, 0, 1>>
    /\ drawn = <<2, 0, 1>>
    /\ view.current_frame = 1

\* C18: the producer of a JPEG sends at most one frame, of delay 0; when its
\* decoder succeeded it has sent exactly one and the channel is then closed,
\* when it failed it has sent none; and whatever AnimFrame events and paints
\* the View goes through, its current_frame is 0.
C18_JpegSingleFrame ==
    ext \in {"jpg", "jpeg"} =>
        /\ Len(sent) <= 1
        /\ \A i \in 1..Len(sent) : sent[i].delay = 0
        /\ (pstate = "finished" => Len(sent) = 1 /\ SenderGone)
        /\ (pstate = "decode_panic" => sent = <<>>)
        /\ view.current_frame = 0

\* A JPEG, decoded and Complete in its View, after two AnimFrame events, the
\* last of 120 ms, whose paint advanced from frame 0 to frame 0.
C18_Witness ==
    /\ ext = "jpg" /\ pstate = "finished"
    /\ view.source = "None" /\ Len(view.frames) = 1
    /\ ticks = 2 /\ tick.state = "done" /\ tick.elapsed > 0
    /\ became = <<0>> /\ view.current_frame = 0
    /\ view.current_delay < 0

\* The largest capacity a bounded queue could have that frame counts up to
\* MaxFrames can tell from no bound at all.
QueueCapacity == MaxFrames - 1

\* C19 as stated: the frames sent and not yet pulled never exceed a capacity
\* that does not depend on the animation's frame count.
C19_Original == Len(chan) <= QueueCapacity

\* C19 amended: the queue has no bound of its own. The producer never waits to
\* send, whatever is queued, so the frames sent and not yet pulled are limited
\* only by the animation: with the frames the View has pulled they are the
\* frames sent so far, at most N, and all N can be queued at once.
C19_QueueUnbounded ==
    /\ (pstate = "running" /\ Len(sent) < N => ENABLED ProducerSend)
    /\ (ViewAlive => Len(chan) + Len(view.frames) = Len(sent))
    /\ Len(chan) <= N

\* Every frame of an animation of MaxFrames frames is queued, none pulled.
C19_Witness ==
    /\ N = MaxFrames
    /\ Len(chan) = N
    /\ view.frames = <<>>
    /\ ViewAlive

\* C20: every frame a producer sends has delay >= 0, whatever timings the file
\* declares: GIF delays, WebP timestamps (also some that stay or go back), APNG
\* numerators and denominators.
C20_DelaysNonNegative == \A i \in 1..Len(sent) : sent[i].delay >= 0

\* C21: the delay of an APNG frame with frame control is the floor of
\* delay_num * 1_000_000_000 / delay_den ns, a delay_den of 0 counting as 100:
\* delay * den <= delay_num * 10^9 < (delay + 1) * den. Neither the u64 product
\* overflows nor the cast to i64 changes the value, for 16-bit delay_num and
\* delay_den. A frame without frame control has delay 0.
C21_PngDelay ==
    codec.op = "png_delay" =>
        LET fc == codec.in
            r == codec.out
            den == IF fc.delay_den = 0 THEN 100 ELSE fc.delay_den
            exact == wide_norm(<<0, 0, 0>> \o Wide(fc.delay_num))
        IN IF fc.some
           THEN /\ ~r.overflow
                /\ ~r.negative
                /\ wide_leq(wide_mul(r.delay, den), exact)
                /\ wide_less(exact, wide_mul(wide_succ(r.delay), den))
           ELSE r.delay = <<>>

\* The largest numerator with the denominator 0: 65_535 * 10^9 / 100 ns.
C21_Witness ==
    /\ codec.op = "png_delay"
    /\ codec.in.some /\ codec.in.delay_num = 65535 /\ codec.in.delay_den = 0
    /\ codec.out.delay = <<0, 0, 350, 655>>

RECURSIVE SumSeq(_)
SumSeq(q) == IF q = <<>> THEN 0 ELSE Head(q) + SumSeq(Tail(q))

\* C22: the delays sent for one file add up to its nominal duration: for GIF
\* to the sum of its delay ticks times 10_000_000 ns, for WebP to the timestamp
\* of its last frame times 1_000_000 ns (0 without frames), for JPEG to 0; for
\* APNG each delay is at most the exact delay_num / delay_den seconds and less
\* than 1 ns below it, so the sum is less than 1 ns per frame below the exact sum.
C22_TimingRoundTrip ==
    codec.op = "timing" =>
        LET e == codec.in.ext
            d == codec.in.d
            out == codec.out
        IN /\ Len(out) = Len(d)
           /\ e = "gif" => SumSeq(out) = SumSeq(d) * 10000000
           /\ e = "webp" => SumSeq(out) = (IF d = <<>> THEN 0 ELSE d[Len(d)]) * 1000000
           /\ e = "jpg" => SumSeq(out) = 0
           /\ e = "png" =>
                 \A k \in 1..Len(d) :
                    LET den == IF d[k][2] = 0 THEN 100 ELSE d[k][2]
                        loss == d[k][1] * 1000000000 - out[k] * den
                    IN 0 <= loss /\ loss < den

\* A WebP of three frames whose timestamps 33, 16, 100 go back once.
C22_Witness ==
    /\ codec.op = "timing"
    /\ codec.in.ext = "webp"
    /\ codec.in.d = <<33, 16, 100>>
    /\ codec.out = <<33000000, -17000000, 84000000>>

\* C23: the pixels a WebP producer sends are in RGBA order and show the
\* colours of the frame, whether the decoder laid its bytes out as RGBA or as
\* BGRA: a BGRA frame of bytes (b, g, r, a) and an RGBA frame of bytes
\* (r, g, b, a) are sent as the same pixels.
C23_WebpChannelOrder ==
    codec.op = "webp_pixels" =>
        /\ codec.out = codec.in.img
        /\ codec.in.site = "formats" =>
              webp_rgba("Bgra", webp_data("Bgra", codec.in.img))
                  = webp_rgba("Rgba", webp_data("Rgba", codec.in.img))

\* A BGRA frame of two pixels whose red and blue differ.
C23_Witness ==
    /\ codec.op = "webp_pixels"
    /\ codec.in.site = "formats" /\ codec.in.mode = "Bgra"
    /\ Len(codec.in.img) = 2
    /\ codec.in.img[1].r = 255 /\ codec.in.img[1].b = 0
    /\ codec.in.img[2].r = 0 /\ codec.in.img[2].b = 128
    /\ codec.out = codec.in.img

\* C24: for a PNG of colour type Rgb, every pixel keeps its colour and is
\* delivered with alpha 0 when a transparent colour is declared and the
\* pixel's RGB equals it, and with alpha 255 otherwise (also when no
\* transparent colour is declared).
C24_PngTransparencyKey ==
    codec.op = "png_pixels" =>
        /\ Len(codec.out) = Len(codec.in.img)
        /\ \A i \in 1..Len(codec.in.img) :
              LET c == codec.in.img[i]
                  px == codec.out[i]
              IN /\ <<px.r, px.g, px.b>> = <<c.r, c.g, c.b>>
                 /\ px.a = IF codec.in.trns.some /\ codec.in.trns.key = <<c.r, c.g, c.b>>
                           THEN 0 ELSE 255

\* The screen after the disposal of a lone first frame has been carried out.
AfterDisposal(frame, image) ==
    [x \in 1..CanvasW |->
        IF x \in Region(frame) /\ frame.dispose \in {"Background", "Previous"}
        THEN "bg" ELSE image[x]]

\* C25: the GIF producer sends for every frame the whole screen (CanvasW
\* pixels), composited on the one screen kept across frames: the image of
\* frame 1 is frame 1 over the empty screen, and the image of frame 2 shows
\* frame 2's pixel wherever frame 2 has an opaque pixel, and everywhere else
\* the image of frame 1 after frame 1's disposal (unchanged for Keep, frame
\* 1's region cleared for Background and Previous).
C25_GifCompositing ==
    codec.op = "gif" =>
        /\ Len(codec.out) = Len(codec.in)
        /\ \A k \in 1..Len(codec.out) :
              codec.out[k].width = CanvasW /\ DOMAIN codec.out[k].data = 1..CanvasW
        /\ \A x \in 1..CanvasW :
              codec.out[1].data[x] =
                  IF x \in Region(codec.in[1]) /\ codec.in[1].pixels[x - codec.in[1].left] # "t"
                  THEN codec.in[1].pixels[x - codec.in[1].left] ELSE "bg"
        /\ Len(codec.in) = 2 =>
              \A x \in 1..CanvasW :
                 codec.out[2].data[x] =
                     IF x \in Region(codec.in[2]) /\ codec.in[2].pixels[x - codec.in[2].left] # "t"
                     THEN codec.in[2].pixels[x - codec.in[2].left]
                     ELSE AfterDisposal(codec.in[1], codec.out[1].data)[x]

\* Frame 1 fills the screen and is kept; frame 2 updates the middle pixel.
C25_Witness ==
    /\ codec.op = "gif"
    /\ Len(codec.in) = 2
    /\ codec.in[1] = [left |-> 0, pixels |-> <<"a", "a", "a">>, dispose |-> "Keep"]
    /\ codec.in[2].left = 1 /\ codec.in[2].pixels = <<"b">>
    /\ codec.out[1].data = <<"a", "a", "a">>
    /\ codec.out[2].data = <<"a", "b", "a">>

\* C25 as stated: whatever the frames' disposal methods and transparent
\* pixels, the image of frame 2 is the image of frame 1 outside frame 2's
\* region and frame 2's pixels inside it.
C25_Original ==
    (codec.op = "gif" /\ Len(codec.in) = 2) =>
        \A x \in 1..CanvasW :
           codec.out[2].data[x] =
               IF x \in Region(codec.in[2])
               THEN codec.in[2].pixels[x - codec.in[2].left]
               ELSE codec.out[1].data[x]

\* C26: every frame a PNG producer sends has the width and height the image
\* header declares and holds exactly width x height RGBA pixels (4 bytes
\* each), for every colour type and every frame-control record.
C26_PngFullCanvas ==
    codec.op = "png_frame" =>
        /\ codec.out.width = codec.in.size.width
        /\ codec.out.height = codec.in.size.height
        /\ Len(codec.out.data) = 4 * codec.out.width * codec.out.height

\* C27 as stated: for every format image_size is None while no frame is
\* cached, and is the first cached frame's size from then on.
C27_Original ==
    ViewAlive =>
        view.image_size = IF view.frames = <<>> THEN NoSize
                          ELSE SomeSize(view.frames[1].width, view.frames[1].height)

\* C27: a GIF View has image_size from its construction, the size the file's
\* header declares; a View of any other format has image_size None exactly
\* while no frame is cached, and the first cached frame's size from then on.
\* Once set, image_size never changes while the View lives, also when a
\* later frame has another size.
C27_ImageSize ==
    /\ [](ViewAlive =>
            view.image_size =
                IF ext = "gif" THEN SomeSize(header_size.width, header_size.height)
                ELSE IF view.frames = <<>> THEN NoSize
                ELSE SomeSize(view.frames[1].width, view.frames[1].height))
    /\ [][(ViewAlive /\ ViewAlive' /\ view.image_size.some)
             => view'.image_size = view.image_size]_vars

\* A second frame of another size has been cached and image_size is still the
\* first frame's.
C27_Witness ==
    /\ ViewAlive
    /\ ext = "png"
    /\ Len(view.frames) >= 2
    /\ view.frames[2].width # view.frames[1].width
    /\ view.image_size = SomeSize(view.frames[1].width, view.frames[1].height)

\* The step is a call of next_frame that made a frame current.
Advanced == pc = "paint_loop" /\ became' # became

\* After the step the producer has closed the channel and the View has seen
\* it: all N frames are cached.
FullyDecoded ==
    /\ SenderGone
    /\ view'.source = "None"
    /\ chan' = <<>>
    /\ Len(view'.frames) = N
    /\ Cached' = sent

\* C28: while the View lives, current_frame changes only in a call of
\* next_frame that makes a frame current, and such a call moves the index
\* from k to k + 1 (the very first call, on an empty cache, makes frame 0
\* current), except that it moves it from N - 1 to 0 when the producer has
\* closed the channel and all N frames are cached; it never goes to 0 earlier
\* because the producer has not yet sent the next frame.
C28_PlaybackOrder ==
    [][ViewAlive' =>
          IF Advanced
          THEN view'.current_frame =
                  IF view.frames = <<>> THEN 0
                  ELSE IF view.current_frame = N - 1 /\ FullyDecoded THEN 0
                  ELSE view.current_frame + 1
          ELSE view'.current_frame = view.current_frame]_vars

\* One paint has made the last frame current and then frame 0 again.
C28_Witness ==
    /\ ViewAlive
    /\ N >= 2
    /\ Len(became) >= 2
    /\ became[Len(became) - 1] = N - 1
    /\ became[Len(became)] = 0
    /\ view.current_frame = 0
    /\ view.source = "None"

\* What recv() will return when the producer is in state p, the channel
\* holds q and n frames have been sent.
FutureOf(p, q, n) ==
    IF p = "running" THEN q \o [k \in 1..(N - n) |-> FrameSource(n + k)] ELSE q

\* What a paint at position p (at rest: the next paint) leaves behind when
\* recv() returns the frames of q in order: the View and the frames drawn.
\* It is a function of the View and of the frames sent and to be sent, not of
\* when the producer sends them.
PaintOutcome(p, v, q, start, d) ==
    IF p = "paint_loop"
    THEN LET r == paint_iterate(v, q, start, d) IN [v |-> r.v, d |-> r.d]
    ELSE IF p = "paint_current"
    THEN LET r == current_frame(v, q) IN [v |-> r.v, d |-> draw(d, r.img)]
    ELSE LET r == paint(v, q) IN [v |-> r.v, d |-> r.d]

\* C29: a producer step changes neither the View nor what the next paint
\* will leave behind; from the begin of a paint to its end no step, of the
\* producer or of the UI thread, changes what the paint will leave behind;
\* and the paint ends with exactly that View (current_frame, current_delay,
\* cache) and that sequence of frames drawn. So the View after each paint and
\* the frames drawn depend on the frames sent and on the AnimFrame intervals,
\* not on the interleaving.
C29_TimingIndependent ==
    [][(ViewAlive /\ ViewAlive') =>
          LET before == PaintOutcome(pc, view, FutureOf(pstate, chan, Len(sent)),
                                     start_frame, drawn)
              after == PaintOutcome(pc', view', FutureOf(pstate', chan', Len(sent')),
                                    start_frame', drawn')
          IN /\ (pc = "idle" /\ pc' = "idle" /\ ticks' = ticks) =>
                   (view' = view /\ after = before)
             /\ pc' # "idle" => after = before
             /\ (pc # "idle" /\ pc' = "idle") =>
                   (view' = before.v /\ drawn' = before.d)]_vars

\* A paint has ended that had to wait for the producer: it received more
\* frames than were queued when the tick before it was handled.
C29_Witness ==
    /\ pc = "idle"
    /\ tick.state = "done"
    /\ Len(view.frames) >= 2
    /\ Len(view.frames) > tick.cached + 1
    /\ Len(drawn) >= 2
    /\ pstate = "running"

\* The producer thread can take its next step: send, return or panic.
ProducerStep == ProducerSend \/ ProducerFinish \/ ProducerFail

\* The UI thread is inside recv(), waiting for a frame or for the channel to close.
ConsumerWaits == pc \in {"paint_current", "paint_loop"} /\ ~RecvReady(view, chan, SenderGone)

\* C30: a running producer can always take its next step (send never
\* waits), so the producer and the View never wait for each other; and when
\* paint keeps being called, a View that lives on ends up with source = None
\* and in its cache exactly the N frames the producer sent before it stopped.
C30_EventualCompletion ==
    /\ [](pstate = "running" => ENABLED ProducerStep)
    /\ [](ConsumerWaits => pstate = "running")
    /\ (pc = "idle") ~>
           (\/ ~ViewAlive
            \/ /\ view.source = "None"
               /\ SenderGone
               /\ Len(sent) = N
               /\ Cached = sent)

\* The producer failed after sending its frames, and the View, painted
\* again and again, has cached them all and dropped the Receiver.
C30_Witness ==
    /\ pc = "idle"
    /\ pstate = "decode_panic"
    /\ N >= 2
    /\ view.source = "None"
    /\ Cached = sent
    /\ Len(sent) = N

\* C31: in the Image and Gif widgets no paint indexes frames out of bounds,
\* whatever the number of frames the producer delivers, none included.
C31_WidgetIndexValid ==
    /\ crash # "index_oob"
    /\ ViewAlive => view.current_frame < (IF view.frames = <<>> THEN 1 ELSE Len(view.frames))

\* view_trackers[i].id = i for every index i, and active_view and drag refer
\* to a view that exists.
TrackersNumbered(s) ==
    /\ \A i \in 1..Len(s.view_trackers) : s.view_trackers[i].id = i - 1
    /\ s.active_view # None => s.active_view[1] < Len(s.view_trackers)
    /\ s.drag # None => s.drag[1] < Len(s.view_trackers)

\* What remove(view_id) makes of active_view or drag.
Renumbered(option, view_id, last_id) ==
    IF option = Some(view_id) THEN None
    ELSE IF option = Some(last_id) THEN Some(view_id)
    ELSE option

SelectedViews(s) == {s.view_trackers[i].id : i \in {j \in 1..Len(s.view_trackers) : s.view_trackers[j].selected}}

ProjectNumbered(p) ==
    /\ \A i \in 1..Len(p.images) : p.images[i].id = i - 1
    /\ Len(p.layers) = Len(p.images)
    /\ \A id \in 0..(Len(p.images) - 1) :
          Cardinality({k \in 1..Len(p.layers) : p.layers[k] = id}) = 1

\* C34: after any sequence of Project::add, set_origin and shift_layer on a
\* new Project images[i].id = i for every i and layers is a permutation of
\* the ids 0..images.len()-1; add puts the new image at the end of layers.
C34_ProjectNumbered ==
    /\ ProjectNumbered(edit.project)
    /\ LET added == project_add(edit.project)
       IN /\ ProjectNumbered(added)
          /\ added.layers[Len(added.layers)] = Len(edit.project.images)
          /\ added.images[Len(added.images)].id = Len(edit.project.images)
          /\ SubSeq(added.layers, 1, Len(edit.project.layers)) = edit.project.layers

\* Three images, the first one added now on the top layer and the last one
\* on the bottom layer.
C34_Witness ==
    /\ Len(edit.project.images) = 3
    /\ edit.project.layers = <<2, 1, 0>>
    /\ edit.project.images[2].origin = 1

\* clamp(x, lo, hi)
Clamp(x, lo, hi) == IF x < lo THEN lo ELSE IF x > hi THEN hi ELSE x

\* C35: shift_layer(id, delta) moves the image from its layer p to
\* clamp(p + delta, 0, layers.len() - 1) by exchanging it with the image
\* there and sets dirty; when id is on no layer or the clamped layer is p the
\* project is unchanged. set_origin sets dirty only when the origin changes,
\* and of add, set_origin, shift_layer and save only a save that succeeds
\* clears dirty.
C35_DirtyOnChange ==
    LET p == edit.project
    IN /\ \A id \in Ids, delta \in Deltas :
             LET r == project_shift_layer(p, id, delta)
                 at == {k \in 1..Len(p.layers) : p.layers[k] = id}
             IN IF at = {} THEN r = p
                ELSE LET from == CHOOSE k \in at : TRUE
                         to == Clamp(from - 1 + delta, 0, Len(p.layers) - 1) + 1
                     IN IF to = from THEN r = p
                        ELSE /\ r.layers[to] = id
                             /\ r.layers[from] = p.layers[to]
                             /\ \A k \in 1..Len(p.layers) :
                                   k \notin {from, to} => r.layers[k] = p.layers[k]
                             /\ Len(r.layers) = Len(p.layers)
                             /\ r.images = p.images
                             /\ r.dirty
       /\ \A id \in Ids, origin \in Origins :
             LET r == project_set_origin(p, id, origin)
             IN IF id < Len(p.images) /\ p.images[id + 1].origin # origin
                THEN r = [p EXCEPT !.images[id + 1].origin = origin, !.dirty = TRUE]
                ELSE r = p
       /\ project_add(p).dirty
       /\ project_save(p, TRUE) = [p EXCEPT !.dirty = FALSE]
       /\ project_save(p, FALSE) = p

\* A saved project of three images, the layers reordered and an image moved:
\* shifting the top image up and setting an origin to what it is leave it
\* clean, shifting the bottom image by two exchanges it with the top one.
C35_Witness ==
    /\ ~edit.project.dirty
    /\ edit.project.layers = <<1, 2, 0>>
    /\ edit.project.images[1].origin = 1
    /\ ~project_shift_layer(edit.project, 0, 1).dirty
    /\ ~project_set_origin(edit.project, 0, 1).dirty
    /\ project_shift_layer(edit.project, 1, 2).layers = <<0, 2, 1>>

\* C36: initialize returns true if and only if the connection to a running
\* primary succeeded and a filename was given, and then the first filename
\* and a newline are what was written to the socket; on NotFound the process
\* binds the socket and returns false; the primary accepts connections only
\* after it received the event sink, and submits one add-image command for
\* every line read from a connection.
C36_Initialize ==
    /\ pool.pc = "returned" =>
          (pool.ret = "true" <=> pool.socket = "listening" /\ Len(pool.filenames) > 0)
    /\ pool.ret = "true" => pool.written = pool.filenames[1] \o <<"\n">>
    /\ pool.pc = "returned" /\ pool.socket = "absent" => pool.listener /\ pool.ret = "false"
    /\ pool.accepted > 0 => pool.sink = "sent"
    /\ Len(pool.submitted) = Len(pool.lines)

\* The sum of the last n of the intervals fed.
sum_last(fed, n) == sum_range(fed, Len(fed) - n + 1, Len(fed))

\* C37: frame_time_index is in [0, FRAME_TIME_COUNT); initializing is false
\* from the FRAME_TIME_COUNT-th sample on and true before it; average_fps
\* is 1,000,000,000 / floor(sum / count) over all the samples while there
\* are fewer than FRAME_TIME_COUNT and over the most recent FRAME_TIME_COUNT
\* afterwards, and 0 when there is no sample or the average frame time is 0.
C37_FrameTimeRing ==
    LET n == Len(stats.fed)
        count == IF n < FRAME_TIME_COUNT THEN n ELSE FRAME_TIME_COUNT
        avg == IF count = 0 THEN 0 ELSE sum_last(stats.fed, count) \div count
        expected == IF avg = 0 THEN 0 ELSE 1000000000 \div avg
    IN /\ stats.frame_time_index \in 0..(FRAME_TIME_COUNT - 1)
       /\ stats.frame_time_index = n % FRAME_TIME_COUNT
       /\ stats.initializing <=> n < FRAME_TIME_COUNT
       /\ average_fps(stats) = expected
       /\ stats.fps = expected

\* The ring has wrapped: five samples of 3 ns stand before 355 older ones of
\* 0 ns, the average frame time is 0 and so is the frame rate.
C37_Witness ==
    /\ Len(stats.fed) = FRAME_TIME_COUNT + 5
    /\ stats.pattern = "late"
    /\ ~stats.initializing
    /\ stats.frame_time_index = 5
    /\ stats.frame_times[5] = 3
    /\ stats.frame_times[6] = 0
    /\ stats.fps = 0

\* C38: when layout ran with image_size unknown (need_legit_layout is set),
\* the first AnimFrame handled with image_size known requests a layout and
\* clears need_legit_layout; once image_size is known need_legit_layout is
\* never set again; and a placeholder size shown while a first frame is
\* cached is replaced in the end (while AnimFrame events are still counted,
\* or the layout is already requested), unless the View goes away.
C38_LegitLayout ==
    /\ [][(lay.need_legit_layout /\ view.image_size.some /\ ticks' = ticks + 1)
            => (lay'.requested /\ ~lay'.need_legit_layout)]_vars
    /\ [][(view.image_size.some /\ ~lay.need_legit_layout /\ ViewAlive)
            => ~lay'.need_legit_layout]_vars
    /\ (lay.placeholder /\ view.frames # <<>> /\ (ticks < MaxTicks \/ lay.requested))
          ~> (~lay.placeholder \/ ~ViewAlive)

\* The layout requested after the placeholder has run: the View has the
\* size of its first frame, and an AnimFrame cleared need_legit_layout.
C38_Witness ==
    /\ ext = "webp"
    /\ ViewAlive
    /\ view.frames # <<>>
    /\ ticks > 0
    /\ lay.size = view.image_size
    /\ ~lay.placeholder
    /\ ~lay.need_legit_layout
    /\ ~lay.requested
    /\ lay.layouts = 1

====
